---- MODULE Spec2Model ----
(***************************************************************************)
(* A state-machine model of the snake game and its decision agents:        *)
(*   ai.py        Snake, Apple, Game and the BFS agent (smart_agent_bfs)   *)
(*   allagents.py Game with manual control and the UtilityBasedAgent       *)
(*   learning.py  QLearningAgent (Q-table update, epsilon schedule)        *)
(*                                                                         *)
(* Coordinates are pixels as in the source (multiples of SIZE, and -1 for  *)
(* the placeholder segment appended by increase_length).  The display      *)
(* surface (1000 x 800 in the source) is a small surface here; its size is *)
(* part of the state and set by each specification's initial condition.    *)
(* Python's None is the string "None".  Sequences are 1-based: x[1] is the *)
(* head, the source's x[0].                                                *)
(***************************************************************************)
EXTENDS Integers, Sequences, FiniteSets, TLC

VARIABLES
    screen_width, screen_height,   \* surface.get_width(), surface.get_height()
    x, y, length, direction,       \* Snake
    apple_x, apple_y, count,       \* Apple
    pause, pc,                     \* Game.run: the pause flag and the position in the loop
    current_agent,                 \* Game.run of allagents.py: the selected agent
    previous_direction,            \* UtilityBasedAgent.previous_direction
    q_table, epsilon,              \* QLearningAgent
    episode_count,
    old_epsilon,                   \* play_game's local, None outside play_game
    q_table_file,                  \* the file q_table.pkl on disk
    last_state, last_action,       \* the learning agents of allagents.py and reflexagent.py
    last_score, episode_reward,
    move_history,                  \* ModelBasedAgent.move_history of allagents.py
    agent_playing, events,         \* Game.run of learning.py: its flag, the pending key events
    op, ret                        \* the last operation performed and what it computed

surfaceVars == <<screen_width, screen_height>>
snakeVars == <<x, y, length, direction>>
appleVars == <<apple_x, apple_y, count>>
loopVars == <<pause, pc>>
agentVars == <<current_agent, previous_direction>>
learnVars == <<q_table, epsilon, episode_count, old_epsilon>>
fileVars == <<q_table_file>>
episodeVars == <<last_state, last_action, last_score, episode_reward, move_history>>
controlVars == <<agent_playing, events>>
restVars == <<fileVars, episodeVars, controlVars>>
vars == <<screen_width, screen_height, x, y, length, direction,
          apple_x, apple_y, count, pause, pc, current_agent, previous_direction,
          q_table, epsilon, episode_count, old_epsilon, q_table_file,
          last_state, last_action, last_score, episode_reward, move_history,
          agent_playing, events, op, ret>>

\* No file, no learning episode begun, no agent at play, no key pending.
NoFile == [exists |-> FALSE, readable |-> FALSE, table |-> << >>]
NoState == << >>
NoAction == 0 - 1

RestIdle ==
    /\ q_table_file = NoFile
    /\ last_state = NoState /\ last_action = NoAction
    /\ last_score = 0 /\ episode_reward = 0 /\ move_history = << >>
    /\ agent_playing = FALSE /\ events = << >>

(* ------------------------------ bounds --------------------------------- *)
GridCols == 4
GridRows == 4
MaxLen == 7
AllCols == 3
AllRows == 3
AllMaxLen == 4
MaxEpisodes == 4610
PolCols == 3
PolRows == 3
PolLen == 5
MaxCap == 3
RunCols == 3
RunRows == 3
RunMaxLen == 3
MaxEvents == 2

(* -------------------------- program constants -------------------------- *)
SIZE == 40
max_depth == 15
space_max_depth == 8

None == "None"
directions == <<"left", "right", "up", "down">>
Directions == {"left", "right", "up", "down"}

Min(a, b) == IF a < b THEN a ELSE b
Max(a, b) == IF a > b THEN a ELSE b
SetMin(S) == CHOOSE m \in S : \A o \in S : m <= o
SetMax(S) == CHOOSE m \in S : \A o \in S : m >= o

(* ------------------------------- Snake --------------------------------- *)
move_left_unguarded(d) == "left"
move_left(d) == IF d # "right" THEN "left" ELSE d
move_right(d) == IF d # "left" THEN "right" ELSE d
move_up(d) == IF d # "down" THEN "up" ELSE d
move_down(d) == IF d # "up" THEN "down" ELSE d

\* The dispatch "if best_direction == 'left': move_left() elif ..." found after
\* every decision, and the arrow-key dispatch of Game.run.
turn(d, request) ==
    IF request = "left" THEN move_left(d)
    ELSE IF request = "right" THEN move_right(d)
    ELSE IF request = "up" THEN move_up(d)
    ELSE IF request = "down" THEN move_down(d)
    ELSE d

\* walk's loop "for i in range(length - 1, 0, -1): s[i] = s[i-1]", one list at a time.
RECURSIVE shift_ascending(_, _, _)
shift_ascending(s, i, len) ==
    IF i > len THEN s ELSE shift_ascending([s EXCEPT ![i] = s[i - 1]], i + 1, len)

shift_from_head(s, i) == shift_ascending(s, 2, i)

RECURSIVE shift(_, _)
shift(s, i) == IF i < 2 THEN s ELSE shift([s EXCEPT ![i] = s[i - 1]], i - 1)

walk_x_but_last(xs, len, d) ==
    LET s == shift(xs, len - 1)
    IN  IF d = "left" THEN [s EXCEPT ![1] = s[1] - SIZE]
        ELSE IF d = "right" THEN [s EXCEPT ![1] = s[1] + SIZE]
        ELSE s

walk_x(xs, len, d) ==
    LET s == shift(xs, len)
    IN  IF d = "left" THEN [s EXCEPT ![1] = s[1] - SIZE]
        ELSE IF d = "right" THEN [s EXCEPT ![1] = s[1] + SIZE]
        ELSE s

walk_y_ascending(ys, len, d) ==
    LET s == shift_ascending(ys, 2, len)
    IN  IF d = "up" THEN [s EXCEPT ![1] = s[1] - SIZE]
        ELSE IF d = "down" THEN [s EXCEPT ![1] = s[1] + SIZE]
        ELSE s

walk_y(ys, len, d) ==
    LET s == shift(ys, len)
    IN  IF d = "up" THEN [s EXCEPT ![1] = s[1] - SIZE]
        ELSE IF d = "down" THEN [s EXCEPT ![1] = s[1] + SIZE]
        ELSE s

(* ------------------------------- Apple --------------------------------- *)
\* ai.py's x_list / y_list in grid units (pixels / SIZE).
x_list == <<8, 4, 17, 7, 10, 6, 24, 2, 1, 19, 18, 22, 10, 17, 12, 12, 13, 4, 19, 12,
            18, 9, 24, 4, 2, 10, 19, 17, 19, 20>>
y_list == <<14, 1, 11, 7, 6, 14, 2, 5, 6, 2, 2, 13, 18, 9, 17, 19, 17, 8, 2, 9,
            18, 3, 7, 7, 8, 17, 8, 1, 13, 15>>

\* A grid index of the 1000 x 800 surface folded onto a surface with n columns
\* (or rows).  Every entry of the lists, and the first apple at 120, is at index
\* >= 1; the fold keeps that.
Fold(g, n) == IF n < 2 THEN 0 ELSE ((g - 1) % (n - 1)) + 1

apple_first_x == Fold(3, screen_width \div SIZE) * SIZE
apple_first_y == Fold(3, screen_height \div SIZE) * SIZE
apple_move_x(c) == Fold(x_list[c + 1], screen_width \div SIZE) * SIZE
apple_move_y(c) == Fold(y_list[c + 1], screen_height \div SIZE) * SIZE

(* -------------------------- Game (ai.py) ------------------------------- *)
is_collision(x1, y1, x2, y2) ==
    x1 >= x2 /\ x1 < x2 + SIZE /\ y1 >= y2 /\ y1 < y2 + SIZE

\* self_collision on a body: "for i in range(3, length)".
self_collision_body(xs, ys, len) ==
    \E i \in 4..len : is_collision(xs[1], ys[1], xs[i], ys[i])

check_wall_collision_inclusive(hx, hy) ==
    hx < 0 \/ hx > screen_width \/ hy < 0 \/ hy > screen_height

check_wall_collision(hx, hy) ==
    hx < 0 \/ hx >= screen_width \/ hy < 0 \/ hy >= screen_height

_is_potential_move_colliding(next_head_x, next_head_y) ==
    \/ ~(0 <= next_head_x /\ next_head_x < screen_width
         /\ 0 <= next_head_y /\ next_head_y < screen_height)
    \/ \E i \in 2..length : is_collision(next_head_x, next_head_y, x[i], y[i])

direction_moves(d) ==
    IF d = "left" THEN <<0 - SIZE, 0>>
    ELSE IF d = "right" THEN <<SIZE, 0>>
    ELSE IF d = "up" THEN <<0, 0 - SIZE>>
    ELSE <<0, SIZE>>

is_reverse(cur, d) ==
    \/ (cur = "left" /\ d = "right")
    \/ (cur = "right" /\ d = "left")
    \/ (cur = "up" /\ d = "down")
    \/ (cur = "down" /\ d = "up")

\* smart_agent_bfs's filter: not a U-turn and not an immediate collision.
valid_directions_of(cur) ==
    SelectSeq(directions,
              LAMBDA d : /\ ~is_reverse(cur, d)
                         /\ ~_is_potential_move_colliding(x[1] + direction_moves(d)[1],
                                                          y[1] + direction_moves(d)[2]))

(* ------------------- _bfs_pathfind (ai.py 358-416) --------------------- *)
\* Queue entries are (x, y, first_direction, depth) as in the source.
\* The queue seeded from the last valid direction to the first.
bfs_seed_reversed(start_x, start_y, valid_directions) ==
    [i \in 1..Len(valid_directions) |->
        LET d == valid_directions[Len(valid_directions) + 1 - i]
        IN  [x |-> start_x + direction_moves(d)[1],
             y |-> start_y + direction_moves(d)[2],
             first |-> d,
             depth |-> 1]]

bfs_seed(start_x, start_y, valid_directions) ==
    [i \in 1..Len(valid_directions) |->
        [x |-> start_x + direction_moves(valid_directions[i])[1],
         y |-> start_y + direction_moves(valid_directions[i])[2],
         first |-> valid_directions[i],
         depth |-> 1]]

bfs_body_collision(next_x, next_y) ==
    \E i \in 2..length : is_collision(next_x, next_y, x[i], y[i])

\* The "for direction in directions" loop of one dequeued entry, from index i on.
RECURSIVE bfs_explore(_, _, _, _)
bfs_explore(cur, i, queue, visited) ==
    IF i > Len(directions) THEN <<queue, visited>>
    ELSE LET next_x == cur.x + direction_moves(directions[i])[1]
             next_y == cur.y + direction_moves(directions[i])[2]
         IN  IF <<next_x, next_y>> \in visited
                THEN bfs_explore(cur, i + 1, queue, visited)
             ELSE IF ~(0 <= next_x /\ next_x < screen_width
                       /\ 0 <= next_y /\ next_y < screen_height)
                THEN bfs_explore(cur, i + 1, queue, visited)
             ELSE IF bfs_body_collision(next_x, next_y)
                THEN bfs_explore(cur, i + 1, queue, visited)
             ELSE bfs_explore(cur, i + 1,
                              Append(queue, [x |-> next_x, y |-> next_y,
                                             first |-> cur.first, depth |-> cur.depth + 1]),
                              visited \cup {<<next_x, next_y>>})

\* The "while queue" loop.
RECURSIVE bfs_loop(_, _, _, _)
bfs_loop(queue, visited, target_x, target_y) ==
    IF queue = <<>> THEN None
    ELSE LET cur == Head(queue)
         IN  IF cur.x = target_x /\ cur.y = target_y THEN cur.first
             ELSE IF cur.depth >= max_depth
                THEN bfs_loop(Tail(queue), visited, target_x, target_y)
             ELSE LET r == bfs_explore(cur, 1, Tail(queue), visited)
                  IN  bfs_loop(r[1], r[2], target_x, target_y)

\* A search that gives up and answers with the first valid direction.
_bfs_pathfind_guess(start_x, start_y, target_x, target_y, valid_directions) ==
    LET seed == bfs_seed(start_x, start_y, valid_directions)
        r == bfs_loop(seed, {<<seed[i].x, seed[i].y>> : i \in 1..Len(seed)},
                      target_x, target_y)
    IN  IF r = None /\ valid_directions # <<>> THEN valid_directions[1] ELSE r

_bfs_pathfind(start_x, start_y, target_x, target_y, valid_directions) ==
    LET seed == bfs_seed(start_x, start_y, valid_directions)
    IN  bfs_loop(seed, {<<seed[i].x, seed[i].y>> : i \in 1..Len(seed)},
                 target_x, target_y)

(* ------------- _count_available_space (ai.py 477-518) ------------------ *)
space_moves == << <<0 - SIZE, 0>>, <<SIZE, 0>>, <<0, 0 - SIZE>>, <<0, SIZE>> >>

\* The fill over the snake xs, ys of len segments.
RECURSIVE space_explore(_, _, _, _, _, _, _)
space_explore(xs, ys, len, cur, i, queue, visited) ==
    IF i > Len(space_moves) THEN <<queue, visited>>
    ELSE LET next_x == cur.x + space_moves[i][1]
             next_y == cur.y + space_moves[i][2]
         IN  IF <<next_x, next_y>> \in visited
                THEN space_explore(xs, ys, len, cur, i + 1, queue, visited)
             ELSE IF ~(0 <= next_x /\ next_x < screen_width
                       /\ 0 <= next_y /\ next_y < screen_height)
                THEN space_explore(xs, ys, len, cur, i + 1, queue, visited)
             ELSE IF \E k \in 1..len : is_collision(next_x, next_y, xs[k], ys[k])
                THEN space_explore(xs, ys, len, cur, i + 1, queue, visited)
             ELSE space_explore(xs, ys, len, cur, i + 1,
                                Append(queue, [x |-> next_x, y |-> next_y,
                                               depth |-> cur.depth + 1]),
                                visited \cup {<<next_x, next_y>>})

RECURSIVE space_loop(_, _, _, _, _, _, _)
space_loop(xs, ys, len, queue, visited, cnt, depth_cap) ==
    IF queue = <<>> THEN cnt
    ELSE LET cur == Head(queue)
         IN  IF cur.depth >= depth_cap
                THEN space_loop(xs, ys, len, Tail(queue), visited, cnt + 1, depth_cap)
             ELSE LET r == space_explore(xs, ys, len, cur, 1, Tail(queue), visited)
                  IN  space_loop(xs, ys, len, r[1], r[2], cnt + 1, depth_cap)

\* The fill with the snake's own segments counted in.
count_space_and_body(xs, ys, len, start_x, start_y, depth_cap) ==
    len + space_loop(xs, ys, len, <<[x |-> start_x, y |-> start_y, depth |-> 0]>>,
                     {<<start_x, start_y>>}, 0, depth_cap)

count_space(xs, ys, len, start_x, start_y, depth_cap) ==
    space_loop(xs, ys, len, <<[x |-> start_x, y |-> start_y, depth |-> 0]>>,
               {<<start_x, start_y>>}, 0, depth_cap)

_count_available_space(start_x, start_y, depth_cap) ==
    count_space(x, y, length, start_x, start_y, depth_cap)

(* ------------------ _utility_score (ai.py 418-449) --------------------- *)
\* The source computes the score in floating point.  Here a score is an
\* integer number of thousandths of a pixel; a Euclidean distance between two
\* grid cells is SIZE * sqrt(n) with n the squared distance in grid units, and
\* sqrt(n) is taken to three decimals, rounded down.
Milli == 10 * 10 * 10
Nano == Milli * Milli * Milli

RECURSIVE isqrt_search(_, _, _)
isqrt_search(n, lo, hi) ==
    IF lo >= hi THEN lo
    ELSE LET mid == (lo + hi + 1) \div 2
         IN  IF mid * mid <= n THEN isqrt_search(n, mid, hi)
             ELSE isqrt_search(n, lo, mid - 1)

\* floor(1000 * sqrt(n)), n a squared grid distance.
sqrt_milli(n) == isqrt_search(n * Milli * Milli, 0, 46340)

grid_dist_sq(x1, y1, x2, y2) ==
    ((x2 - x1) \div SIZE) * ((x2 - x1) \div SIZE)
    + ((y2 - y1) \div SIZE) * ((y2 - y1) \div SIZE)

\* _calculate_distance in thousandths of a pixel, for grid-aligned points.
_calculate_distance(x1, y1, x2, y2) == SIZE * sqrt_milli(grid_dist_sq(x1, y1, x2, y2))

_utility_score(next_x, next_y, ax, ay) ==
    LET distance_to_apple == _calculate_distance(next_x, next_y, ax, ay)
        min_wall_distance ==
            SetMin({next_x, screen_width - next_x - SIZE,
                    next_y, screen_height - next_y - SIZE})
        body_term ==
            IF length < 2 THEN 0
            ELSE 3 * SetMin({_calculate_distance(next_x, next_y, x[i], y[i]) :
                             i \in 2..length})
        available_space == _count_available_space(next_x, next_y, space_max_depth)
    IN  Max(0, 1000 * Milli - distance_to_apple)
        + min_wall_distance * 2 * Milli
        + body_term
        + available_space * 5 * Milli

\* The rounding of sqrt_milli moves a score by less than SIZE (apple term) plus
\* 3 * SIZE (body term) thousandths; two scores closer than that are not told
\* apart here, and the choice between them is left open.
ScoreTolerance == 4 * SIZE

\* _safety_first_agent's loop keeps the first direction with the strictly
\* greatest score (best_score starts at -1).  The directions it can end on:
safety_first_choices(valid_directions) ==
    LET score(i) == _utility_score(x[1] + direction_moves(valid_directions[i])[1],
                                   y[1] + direction_moves(valid_directions[i])[2],
                                   apple_x, apple_y)
    IN  {valid_directions[i] : i \in
            {i \in 1..Len(valid_directions) :
                /\ score(i) > 0 - Milli - ScoreTolerance
                /\ \A j \in 1..Len(valid_directions) :
                      IF j < i THEN score(i) > score(j) - ScoreTolerance
                      ELSE score(i) >= score(j) - ScoreTolerance}}

(* --------------------- smart_agent_bfs (ai.py 303-356) ----------------- *)
\* The headings _safety_first_agent can leave the snake with.
_safety_first_agent(cur, valid_directions) ==
    {turn(cur, d) : d \in safety_first_choices(valid_directions)}

NoRet == [valid_directions |-> <<>>, best_direction |-> None, raised |-> None]

smart_agent_bfs_turning ==
    LET valid_directions == valid_directions_of(direction)
        best_direction ==
            IF valid_directions = <<>> THEN None
            ELSE _bfs_pathfind(x[1], y[1], apple_x, apple_y, valid_directions)
    IN  /\ direction' \in
              (IF valid_directions = <<>>
                  THEN {d \in Directions : ~is_reverse(direction, d)}
               ELSE IF best_direction # None THEN {turn(direction, best_direction)}
               ELSE _safety_first_agent(direction, valid_directions))
        /\ ret' = [valid_directions |-> valid_directions, best_direction |-> best_direction,
                   raised |-> None]
        /\ op' = "smart_agent_bfs"
        /\ UNCHANGED <<x, y, length, apple_x, apple_y, count>>

smart_agent_bfs ==
    LET valid_directions == valid_directions_of(direction)
        best_direction ==
            IF valid_directions = <<>> THEN None
            ELSE _bfs_pathfind(x[1], y[1], apple_x, apple_y, valid_directions)
    IN  /\ direction' \in
              (IF valid_directions = <<>> THEN {direction}
               ELSE IF best_direction # None THEN {turn(direction, best_direction)}
               ELSE _safety_first_agent(direction, valid_directions))
        /\ ret' = [valid_directions |-> valid_directions, best_direction |-> best_direction,
                   raised |-> None]
        /\ op' = "smart_agent_bfs"
        /\ UNCHANGED <<x, y, length, apple_x, apple_y, count>>

(* --------------------------- Game.play (ai.py) ------------------------- *)
\* walk, the apple, then the two collision checks.  A raise is recorded in
\* ret.raised; the state changes made before the raise stay.
play_ai ==
    LET wx == walk_x(x, length, direction)
        wy == walk_y(y, length, direction)
        eats == is_collision(wx[1], wy[1], apple_x, apple_y)
        nx == IF eats THEN Append(wx, -1) ELSE wx
        ny == IF eats THEN Append(wy, -1) ELSE wy
        nlen == IF eats THEN length + 1 ELSE length
    IN  /\ ~(eats /\ length >= MaxLen)
        /\ x' = nx /\ y' = ny /\ length' = nlen
        /\ IF eats
              THEN /\ apple_x' = apple_move_x(count)
                   /\ apple_y' = apple_move_y(count)
                   /\ count' = (count + 1) % Len(x_list)
              ELSE UNCHANGED <<apple_x, apple_y, count>>
        /\ ret' = [NoRet EXCEPT !.raised =
                      IF self_collision_body(nx, ny, nlen) THEN "Collision Occurred"
                      ELSE IF check_wall_collision(nx[1], ny[1]) THEN "Wall Collision!"
                      ELSE None]
        /\ op' = "play"
        /\ UNCHANGED direction

\* Game.reset: a new Snake and a new Apple.
reset_ai ==
    /\ x' = <<SIZE>> /\ y' = <<SIZE>> /\ length' = 1 /\ direction' = "down"
    /\ apple_x' = apple_first_x /\ apple_y' = apple_first_y /\ count' = 0

(* ---------------------------- Game.run (ai.py) ------------------------- *)
\* One iteration: the pending key events, then the agent, then play; a raise
\* of play sets pause.
move_op(k) ==
    IF k = "left" THEN "move_left" ELSE IF k = "right" THEN "move_right"
    ELSE IF k = "up" THEN "move_up" ELSE "move_down"

AiKeyArrow(k) ==
    /\ pc = "events" /\ ~pause
    /\ direction' = turn(direction, k)
    /\ op' = move_op(k) /\ ret' = NoRet
    /\ UNCHANGED <<restVars, surfaceVars, x, y, length, appleVars, loopVars, agentVars, learnVars>>

AiKeyReturn ==
    /\ pc = "events"
    /\ pause' = FALSE
    /\ reset_ai
    /\ op' = "reset" /\ ret' = NoRet
    /\ UNCHANGED <<restVars, surfaceVars, pc, agentVars, learnVars>>

AiAgent ==
    /\ pc = "events" /\ ~pause
    /\ smart_agent_bfs
    /\ pc' = "play"
    /\ UNCHANGED <<restVars, surfaceVars, pause, agentVars, learnVars>>

AiPlay ==
    /\ pc = "play"
    /\ play_ai
    /\ pause' = (ret'.raised # None)
    /\ pc' = "events"
    /\ UNCHANGED <<restVars, surfaceVars, agentVars, learnVars>>

InitAi ==
    /\ RestIdle
    /\ screen_width = GridCols * SIZE /\ screen_height = GridRows * SIZE
    /\ x = <<SIZE>> /\ y = <<SIZE>> /\ length = 1 /\ direction = "down"
    /\ apple_x = apple_first_x /\ apple_y = apple_first_y /\ count = 0
    /\ pause = FALSE /\ pc = "events"
    /\ current_agent = None /\ previous_direction = None
    /\ q_table = << >> /\ epsilon = Nano /\ episode_count = 0 /\ old_epsilon = None
    /\ op = "init" /\ ret = NoRet

NextAi ==
    \/ \E k \in Directions : AiKeyArrow(k)
    \/ AiKeyReturn
    \/ AiAgent
    \/ AiPlay

SpecAi == InitAi /\ [][NextAi]_vars

\* The same game on a surface two cells high and max_depth + 2 cells long, on
\* which the apple can lie farther from the head than the search of
\* _bfs_pathfind goes.
InitAiCorridor ==
    /\ RestIdle
    /\ screen_width = (max_depth + 2) * SIZE /\ screen_height = 2 * SIZE
    /\ x = <<SIZE>> /\ y = <<SIZE>> /\ length = 1 /\ direction = "down"
    /\ apple_x = apple_first_x /\ apple_y = apple_first_y /\ count = 0
    /\ pause = FALSE /\ pc = "events"
    /\ current_agent = None /\ previous_direction = None
    /\ q_table = << >> /\ epsilon = Nano /\ episode_count = 0 /\ old_epsilon = None
    /\ op = "init" /\ ret = NoRet

SpecAiCorridor == InitAiCorridor /\ [][NextAi]_vars

(* ======================================================================= *)
(*                      allagents.py: Game and agents                      *)
(* ======================================================================= *)
\* Snake, Game.is_collision, self_collision, check_wall_collision and
\* _is_potential_move_colliding of allagents.py have the text of ai.py and are
\* the definitions above.

_get_potential_head(d) ==
    <<x[1] + direction_moves(d)[1], y[1] + direction_moves(d)[2]>>

Abs(n) == IF n < 0 THEN 0 - n ELSE n

_calculate_manhattan_distance(x1, y1, x2, y2) ==
    (Abs(x2 - x1) \div SIZE) + (Abs(y2 - y1) \div SIZE)

\* Apple.move without the test of snake_positions.
apple_cells_any(xs, ys) ==
    {<<i * SIZE, j * SIZE>> : i \in 0..((screen_width - 1) \div SIZE),
                              j \in 0..((screen_height - 1) \div SIZE)}

\* Apple.move(snake_positions): any cell of the surface that is not in
\* snake_positions.
apple_cells(xs, ys) ==
    {c \in {<<i * SIZE, j * SIZE>> : i \in 0..((screen_width - 1) \div SIZE),
                                      j \in 0..((screen_height - 1) \div SIZE)} :
        \A i \in 1..Len(xs) : c # <<xs[i], ys[i]>>}

(* --------------- UtilityBasedAgent (allagents.py 523-585) -------------- *)
\* count_escape_routes(x, y) does not use its arguments: it counts the moves
\* of the present head that do not collide.
count_escape_routes(cx, cy) ==
    Cardinality({d \in Directions :
        ~_is_potential_move_colliding(_get_potential_head(d)[1], _get_potential_head(d)[2])})

utility_of_free_move(d, next_x, next_y) ==
    LET apple_distance == _calculate_manhattan_distance(next_x, next_y, apple_x, apple_y)
        escape_routes == count_escape_routes(next_x, next_y)
        min_wall_distance ==
            SetMin({next_x, screen_width - next_x, next_y, screen_height - next_y}) \div SIZE
        tail_distance ==
            _calculate_manhattan_distance(next_x, next_y, x[Len(x)], y[Len(y)])
    IN  0 - apple_distance * 20
        + escape_routes * 10
        + min_wall_distance * 3
        + (IF d = previous_direction THEN 2 ELSE 0)
        + (IF d = direction THEN 5 ELSE 0)
        - (IF length > 10 /\ tail_distance < 3 THEN 20 ELSE 0)

calculate_utility_mild(d) ==
    LET next == _get_potential_head(d)
    IN  IF _is_potential_move_colliding(next[1], next[2]) THEN 0 - 10
        ELSE utility_of_free_move(d, next[1], next[2])

calculate_utility(d) ==
    LET next == _get_potential_head(d)
    IN  IF _is_potential_move_colliding(next[1], next[2]) THEN 0 - 10000
        ELSE utility_of_free_move(d, next[1], next[2])

\* "directions.remove(<the reverse of snake.direction>)".
non_reversing(cur) == SelectSeq(directions, LAMBDA d : ~is_reverse(cur, d))

\* The loop of make_move: the first direction of ds with the greatest utility.
RECURSIVE best_of(_, _, _)
best_of(ds, i, best) ==
    IF i > Len(ds) THEN best
    ELSE best_of(ds, i + 1,
                 IF calculate_utility(ds[i]) > calculate_utility(best) THEN ds[i] ELSE best)

utility_make_move ==
    LET ds == non_reversing(direction)
        best_direction == best_of(ds, 2, ds[1])
    IN  /\ direction' = turn(direction, best_direction)
        /\ previous_direction' = best_direction
        /\ ret' = [valid_directions |-> ds, best_direction |-> best_direction,
                   raised |-> None]
        /\ op' = "make_move"
        /\ UNCHANGED <<x, y, length, appleVars>>

(* ------------------------- Game.play (allagents.py) -------------------- *)
play_all ==
    LET wx == walk_x(x, length, direction)
        wy == walk_y(y, length, direction)
        eats == is_collision(wx[1], wy[1], apple_x, apple_y)
        nx == IF eats THEN Append(wx, -1) ELSE wx
        ny == IF eats THEN Append(wy, -1) ELSE wy
        nlen == IF eats THEN length + 1 ELSE length
    IN  /\ ~(eats /\ length >= AllMaxLen)
        /\ x' = nx /\ y' = ny /\ length' = nlen
        /\ IF eats
              THEN \E c \in apple_cells(nx, ny) : apple_x' = c[1] /\ apple_y' = c[2]
              ELSE UNCHANGED <<apple_x, apple_y>>
        /\ ret' = [NoRet EXCEPT !.raised =
                      IF self_collision_body(nx, ny, nlen) THEN "Collision Occurred"
                      ELSE IF check_wall_collision(nx[1], ny[1]) THEN "Wall Collision!"
                      ELSE None]
        /\ op' = "play"
        /\ UNCHANGED <<direction, count>>

(* ------------- LearningAgent.reset (allagents.py 746-752) -------------- *)
\* The agent's fields as a record.  "episodes" counts the resets and is only
\* printed; it is not part of the state.
LearningAgent_reset_forgetting(agent) ==
    [agent EXCEPT !.q_table = << >>,
                  !.last_state = NoState, !.last_action = NoAction, !.last_score = 0]

LearningAgent_reset(agent) ==
    [agent EXCEPT !.last_state = NoState, !.last_action = NoAction, !.last_score = 0]

learning_agent_reset ==
    LET agent == LearningAgent_reset([q_table |-> q_table, last_state |-> last_state,
                                      last_action |-> last_action,
                                      last_score |-> last_score])
    IN  /\ q_table' = agent.q_table
        /\ last_state' = agent.last_state
        /\ last_action' = agent.last_action
        /\ last_score' = agent.last_score

\* Game.reset up to its last line: a new Snake, the apple moved off it.
reset_all ==
    /\ x' = <<SIZE>> /\ y' = <<SIZE>> /\ length' = 1 /\ direction' = "down"
    /\ \E c \in apple_cells(<<SIZE>>, <<SIZE>>) : apple_x' = c[1] /\ apple_y' = c[2]
    /\ UNCHANGED count

(* -------------------------- Game.run (allagents.py) -------------------- *)
\* One iteration: the pending key events, then the selected agent's
\* make_move, then play; a raise of play sets pause and drops the agent.
\* The arrow keys handled without looking at pause.
AllKeyArrow_while_paused(k) ==
    /\ pc = "events" /\ current_agent = None
    /\ direction' = turn(direction, k)
    /\ op' = move_op(k) /\ ret' = NoRet
    /\ UNCHANGED <<restVars, surfaceVars, x, y, length, appleVars, loopVars, agentVars, learnVars>>

AllKeyArrow(k) ==
    /\ pc = "events" /\ ~pause /\ current_agent = None
    /\ direction' = turn(direction, k)
    /\ op' = move_op(k) /\ ret' = NoRet
    /\ UNCHANGED <<restVars, surfaceVars, x, y, length, appleVars, loopVars, agentVars, learnVars>>

\* What a reset reports: the fields it found.
reset_ret ==
    [valid_directions |-> << >>, best_direction |-> None, raised |-> None,
     last_state |-> last_state, last_action |-> last_action]

\* K_RETURN: "pause = False; self.reset()", and Game.reset ends with
\* "self.learning_agent.reset()".  The previous_direction that Game.reset
\* clears is an attribute of Game, not the UtilityBasedAgent's.
AllKeyReturn ==
    /\ pc = "events"
    /\ pause' = FALSE
    /\ reset_all
    /\ learning_agent_reset
    /\ op' = "reset"
    /\ ret' = reset_ret
    /\ UNCHANGED <<surfaceVars, pc, agentVars, epsilon, episode_count, old_epsilon,
                   fileVars, episode_reward, move_history, controlVars>>

AllKey4 ==
    /\ pc = "events"
    /\ current_agent' = "utility_based_agent"
    /\ op' = "select" /\ ret' = NoRet
    /\ UNCHANGED <<restVars, surfaceVars, snakeVars, appleVars, loopVars, previous_direction, learnVars>>

AllMakeMove ==
    /\ pc = "events" /\ ~pause /\ current_agent # "learning_agent"
    /\ IF current_agent # None
          THEN utility_make_move
          ELSE /\ op' = "no_agent" /\ ret' = NoRet
               /\ UNCHANGED <<snakeVars, appleVars, previous_direction>>
    /\ pc' = "play"
    /\ UNCHANGED <<restVars, surfaceVars, pause, current_agent, learnVars>>

AllPlay ==
    /\ pc = "play"
    /\ play_all
    /\ pause' = (ret'.raised # None)
    /\ current_agent' = IF ret'.raised # None THEN None ELSE current_agent
    /\ pc' = "events"
    /\ UNCHANGED <<restVars, surfaceVars, previous_direction, learnVars>>

InitAll ==
    /\ RestIdle
    /\ screen_width = AllCols * SIZE /\ screen_height = AllRows * SIZE
    /\ x = <<SIZE>> /\ y = <<SIZE>> /\ length = 1 /\ direction = "down"
    /\ \E c \in apple_cells(<<SIZE>>, <<SIZE>>) : apple_x = c[1] /\ apple_y = c[2]
    /\ count = 0
    /\ pause = FALSE /\ pc = "events"
    /\ current_agent = None /\ previous_direction = None
    /\ q_table = << >> /\ epsilon = Nano /\ episode_count = 0 /\ old_epsilon = None
    /\ op = "init" /\ ret = NoRet

NextAll ==
    \/ \E k \in Directions : AllKeyArrow(k)
    \/ AllKeyReturn
    \/ AllKey4
    \/ AllMakeMove
    \/ AllPlay

SpecAll == InitAll /\ [][NextAll]_vars

(* ======================================================================= *)
(*                      learning.py: QLearningAgent                        *)
(* ======================================================================= *)
\* Q-values and rewards are integers in thousandths (Milli); the rates
\* learning_rate, discount_factor and epsilon_decay are thousandths too.
\* epsilon and epsilon_min are integers in units of 10^-9 (Nano).
learning_rate == Milli \div 10
discount_factor == (9 * Milli) \div 10
epsilon_default == Nano
epsilon_decay == Milli - 1
epsilon_min == Nano \div 100

\* a * rate for a rate in thousandths, rounded to the nearest unit; the
\* product is taken in two parts to stay within 32 bits.
times_rate(a, rate) ==
    (a \div Milli) * rate + ((a % Milli) * rate + Milli \div 2) \div Milli

actions == <<"up", "down", "left", "right">>
n_actions == Len(actions)
direction_map_rev == <<"up", "down", "left", "right">>

\* "[0.0] * self.n_actions"
zero_row == [i \in 1..n_actions |-> 0]

(* ------------- get_valid_actions_for_state (learning.py 405-440) ------- *)
\* A state tuple is (apple_rel_x_disc, apple_rel_y_disc, dangers, direction
\* index); action indices are the source's 0..3.
get_valid_actions_for_state_any(state_tuple) == <<0, 1, 2, 3>>

get_valid_actions_for_state(state_tuple) ==
    LET dangers_from_state == state_tuple[3]
        current_direction_from_state == direction_map_rev[state_tuple[4] + 1]
    IN  SelectSeq(<<0, 1, 2, 3>>,
                  LAMBDA i : /\ ~is_reverse(current_direction_from_state, actions[i + 1])
                             /\ dangers_from_state[i + 1] = 0)

\* max([...]) of a non-empty list.
RECURSIVE max_of(_, _, _)
max_of(row, idx, i) ==
    IF i >= Len(idx) THEN row[idx[i] + 1]
    ELSE Max(row[idx[i] + 1], max_of(row, idx, i + 1))

(* -------------------- update_q_table (learning.py 378-403) ------------- *)
\* A new row that takes the place of the table.
with_row_alone(table, state) ==
    IF state \in DOMAIN table THEN table
    ELSE [s \in {state} |-> zero_row]

with_row(table, state) ==
    IF state \in DOMAIN table THEN table
    ELSE [s \in DOMAIN table \cup {state} |->
             IF s = state THEN zero_row ELSE table[s]]

update_q_table(table, state, action, reward, next_state, done) ==
    LET t1 == with_row(table, state)
        t2 == with_row(t1, next_state)
        current_q == t2[state][action + 1]
        next_state_valid_actions == get_valid_actions_for_state(next_state)
        max_future_q ==
            IF next_state_valid_actions # <<>>
               THEN max_of(t2[next_state], next_state_valid_actions, 1)
               ELSE 0
        target_q ==
            IF done THEN reward
            ELSE reward + times_rate(max_future_q, discount_factor)
    IN  [t2 EXCEPT ![state][action + 1] =
            current_q + times_rate(target_q - current_q, learning_rate)]

\* The states, rows and rewards the update is applied to.
QStates ==
    { <<1, 0, <<0, 0, 0, 0>>, 3>>,
      <<0, -1, <<1, 0, 0, 1>>, 1>>,
      <<-1, 1, <<1, 1, 1, 1>>, 0>>,
      <<0, 0, <<0, 1, 1, 0>>, 2>> }

QRows ==
    { zero_row,
      <<1000 * Milli, (0 - 500) * Milli, 10 * Milli, 0>>,
      <<(0 - 15) * Milli, 100 * Milli, (0 - 500) * Milli, Milli \div 10>> }

\* get_reward's values: death, apple, closer, farther, neither.
Rewards == {(0 - 500) * Milli, 1000 * Milli, 10 * Milli, (0 - 15) * Milli, (0 - 5) * Milli}

QTables == UNION {[D -> QRows] : D \in SUBSET QStates}

QUpdate ==
    /\ op = "init"
    /\ \E state \in QStates, action \in 0..(n_actions - 1), reward \in Rewards,
          next_state \in QStates, done \in BOOLEAN :
          /\ q_table' = update_q_table(q_table, state, action, reward, next_state, done)
          /\ ret' = [state |-> state, action |-> action, reward |-> reward,
                     next_state |-> next_state, done |-> done]
    /\ op' = "update_q_table"
    /\ UNCHANGED <<restVars, surfaceVars, snakeVars, appleVars, loopVars, agentVars,
                   epsilon, old_epsilon, episode_count>>

\* The game objects are not read by the learning operations modelled here.
GameIdle ==
    /\ screen_width = GridCols * SIZE /\ screen_height = GridRows * SIZE
    /\ x = <<SIZE>> /\ y = <<SIZE>> /\ length = 1 /\ direction = "down"
    /\ apple_x = apple_first_x /\ apple_y = apple_first_y /\ count = 0
    /\ pause = FALSE /\ pc = "idle"
    /\ current_agent = None /\ previous_direction = None

InitQ ==
    /\ RestIdle
    /\ GameIdle
    /\ q_table \in QTables
    /\ epsilon = epsilon_default /\ old_epsilon = None /\ episode_count = 0
    /\ op = "init" /\ ret = NoRet

NextQ == QUpdate

SpecQ == InitQ /\ [][NextQ]_vars

(* ------------- the exploration rate (learning.py 497-504, 516-540) ----- *)
\* "if self.epsilon > self.epsilon_min: self.epsilon *= self.epsilon_decay"
decay(eps) ==
    IF eps > epsilon_min THEN times_rate(eps, epsilon_decay) ELSE eps

\* "self.epsilon = old_epsilon" of play_game's exception handler.
restore_skipped(old, cur) == cur

restore(old, cur) == old

\* The rates in effect during the latest episode, the episode before it, the
\* latest train_episode and the train_episode before it, and epsilon as it
\* was before the play_game that came last; NoRate where there was none.
NoRate == 0 - 1
NoRates == [rate |-> NoRate, prev_rate |-> NoRate,
            train_rate |-> NoRate, prev_train_rate |-> NoRate, before |-> NoRate]

\* The end of train_episode, after the episode's loop: the statistics and the
\* decay.  The episode ran with the rate epsilon.
TrainEpisodeEnd ==
    /\ pc = "idle" /\ episode_count < MaxEpisodes
    /\ episode_count' = episode_count + 1
    /\ epsilon' = decay(epsilon)
    /\ ret' = [ret EXCEPT !.rate = epsilon, !.prev_rate = ret.rate,
                          !.train_rate = epsilon, !.prev_train_rate = ret.train_rate,
                          !.before = NoRate]
    /\ op' = "train_episode"
    /\ UNCHANGED <<restVars, surfaceVars, snakeVars, appleVars, loopVars, agentVars,
                   q_table, old_epsilon>>

\* play_game up to its loop: the episode runs with the rate 0.
PlayGameBegin ==
    /\ pc = "idle"
    /\ old_epsilon' = epsilon
    /\ epsilon' = 0
    /\ pc' = "play_game"
    /\ ret' = [ret EXCEPT !.rate = 0, !.prev_rate = ret.rate, !.before = epsilon]
    /\ op' = "play_game"
    /\ UNCHANGED <<restVars, surfaceVars, snakeVars, appleVars, pause, agentVars,
                   q_table, episode_count>>

\* play_game's exception handler, when game.play() raises.
PlayGameRaise ==
    /\ pc = "play_game"
    /\ epsilon' = restore(old_epsilon, epsilon)
    /\ old_epsilon' = None
    /\ pc' = "idle"
    /\ op' = "play_game_raise"
    /\ UNCHANGED <<restVars, surfaceVars, snakeVars, appleVars, pause, agentVars,
                   q_table, episode_count, ret>>

\* The constructor's epsilon: the default 1.0, a value just above epsilon_min,
\* and epsilon_min itself.
InitEpsilons == {epsilon_default, epsilon_min + epsilon_min \div Milli, epsilon_min}

InitEps ==
    /\ RestIdle
    /\ GameIdle
    /\ q_table = << >>
    /\ epsilon \in InitEpsilons /\ old_epsilon = None /\ episode_count = 0
    /\ op = "init" /\ ret = NoRates

NextEps ==
    \/ TrainEpisodeEnd
    \/ PlayGameBegin
    \/ PlayGameRaise

SpecEps == InitEps /\ [][NextEps]_vars

(* ------------- learning.py: the game as the agent reads it ------------- *)
\* Game._is_potential_move_colliding(next_head_x, next_head_y, exclude_tail)
\* of learning.py (829-857); _get_potential_head (808-827) has the text of
\* allagents.py's.
_is_potential_move_colliding_lrn(next_head_x, next_head_y, exclude_tail) ==
    LET end_segment == IF exclude_tail /\ length > 1 THEN length - 1 ELSE length
    IN  \/ ~(0 <= next_head_x /\ next_head_x < screen_width
             /\ 0 <= next_head_y /\ next_head_y < screen_height)
        \/ \E i \in 2..end_segment : is_collision(next_head_x, next_head_y, x[i], y[i])

direction_map(d) ==
    IF d = "up" THEN 0 ELSE IF d = "down" THEN 1 ELSE IF d = "left" THEN 2 ELSE 3

sign_disc(n) == IF n > 0 THEN 1 ELSE IF n < 0 THEN 0 - 1 ELSE 0

\* get_state (222-266).
get_state ==
    LET apple_relative_x == (apple_x - x[1]) \div SIZE
        apple_relative_y == (apple_y - y[1]) \div SIZE
        danger(cx, cy) == IF _is_potential_move_colliding_lrn(cx, cy, TRUE) THEN 1 ELSE 0
        dangers == <<danger(x[1], y[1] - SIZE), danger(x[1], y[1] + SIZE),
                     danger(x[1] - SIZE, y[1]), danger(x[1] + SIZE, y[1])>>
    IN  <<sign_disc(apple_relative_x), sign_disc(apple_relative_y), dangers,
          direction_map(direction)>>

(* ----------------- get_valid_actions (learning.py 292-320) ------------- *)
all_actions == [i \in 1..n_actions |-> i - 1]

get_valid_actions ==
    LET valid_actions ==
            SelectSeq(all_actions,
                LAMBDA i :
                    /\ ~is_reverse(direction, actions[i + 1])
                    /\ ~_is_potential_move_colliding_lrn(
                            _get_potential_head(actions[i + 1])[1],
                            _get_potential_head(actions[i + 1])[2], TRUE))
    IN  IF valid_actions = <<>> THEN all_actions ELSE valid_actions

(* ---------------------- get_action (learning.py 268-290) --------------- *)
NegInf == 0 - 2 * Nano

\* np.argmax: the first index that holds the greatest value.
argmax(vals) ==
    (CHOOSE i \in 1..Len(vals) :
        /\ \A j \in 1..Len(vals) : vals[i] >= vals[j]
        /\ \A j \in 1..(i - 1) : vals[j] < vals[i]) - 1

\* The actions get_action can return: explore is the outcome of
\* "random.random() < self.epsilon"; table is q_table after the row of state
\* has been created.
get_action(state, table, explore) ==
    LET valid_actions_indices == get_valid_actions
    IN  IF explore
           THEN IF valid_actions_indices = <<>> THEN 0..(n_actions - 1)
                ELSE {valid_actions_indices[i] : i \in 1..Len(valid_actions_indices)}
           ELSE LET q_values_for_valid_actions ==
                        [i \in 1..n_actions |->
                            IF \E k \in 1..Len(valid_actions_indices) :
                                   valid_actions_indices[k] = i - 1
                               THEN table[state][i] ELSE NegInf]
                IN  {argmax(q_values_for_valid_actions)}

(* ---------------------- get_reward (learning.py 337-376) --------------- *)
\* Rewards are whole numbers in the source; here they are in thousandths as
\* the Q-values are.
\* get_reward with the apple looked at before the collision.
get_reward_apple_first(old_state, action, new_state, game_over, ate_apple) ==
    IF ate_apple THEN 1000 * Milli
    ELSE IF game_over THEN (0 - 500) * Milli
    ELSE (0 - 5) * Milli

get_reward(old_state, action, new_state, game_over, ate_apple) ==
    IF game_over THEN (0 - 500) * Milli
    ELSE IF ate_apple THEN 1000 * Milli
    ELSE LET old_dist_sq == (x[1] - apple_x) * (x[1] - apple_x)
                            + (y[1] - apple_y) * (y[1] - apple_y)
             new_head == _get_potential_head(actions[action + 1])
             new_dist_sq == (new_head[1] - apple_x) * (new_head[1] - apple_x)
                            + (new_head[2] - apple_y) * (new_head[2] - apple_y)
         IN  IF new_dist_sq < old_dist_sq THEN 10 * Milli
             ELSE IF new_dist_sq > old_dist_sq THEN (0 - 15) * Milli
             ELSE (0 - 5) * Milli

(* ------------- the decisions and rewards over bounded boards ----------- *)
\* The snakes the game produces: a head and a body, each segment next to the
\* one before and no cell taken twice, of n cells.
next_cells(w) ==
    {c \in apple_cells(<< >>, << >>) :
        /\ \A i \in 1..Len(w) : w[i] # c
        /\ LET t == w[Len(w)]
           IN  \/ (c[1] = t[1] /\ (c[2] = t[2] + SIZE \/ c[2] = t[2] - SIZE))
               \/ (c[2] = t[2] /\ (c[1] = t[1] + SIZE \/ c[1] = t[1] - SIZE))}

RECURSIVE snakes_of(_)
snakes_of(n) ==
    IF n <= 1 THEN {<<c>> : c \in apple_cells(<< >>, << >>)}
    ELSE UNION {{Append(w, c) : c \in next_cells(w)} : w \in snakes_of(n - 1)}

\* The heading of a snake whose head went from cell b to cell a.
heading_of(a, b) ==
    IF a[1] < b[1] THEN "left" ELSE IF a[1] > b[1] THEN "right"
    ELSE IF a[2] < b[2] THEN "up" ELSE "down"

\* A snake of the game on a PolCols x PolRows surface, right after increase_length
\* (grown, with the placeholder) or not, with the heading it last walked in,
\* and an apple on any cell (Apple.move_random).
BoardDrawn ==
    /\ screen_width = PolCols * SIZE /\ screen_height = PolRows * SIZE
    /\ \E n \in 1..PolLen : \E w \in snakes_of(n) : \E grown \in BOOLEAN :
          /\ x = [i \in 1..n |-> w[i][1]] \o (IF grown THEN <<0 - 1>> ELSE << >>)
          /\ y = [i \in 1..n |-> w[i][2]] \o (IF grown THEN <<0 - 1>> ELSE << >>)
          /\ length = n + (IF grown THEN 1 ELSE 0)
          /\ IF n >= 2 THEN direction = heading_of(w[1], w[2])
             ELSE direction \in Directions
    /\ \E c \in apple_cells(<< >>, << >>) : apple_x = c[1] /\ apple_y = c[2]
    /\ count = 0 /\ pause = FALSE /\ pc = "idle"
    /\ current_agent = None /\ previous_direction = None

PolGetAction ==
    /\ op = "init"
    /\ \E explore \in BOOLEAN :
          /\ explore => epsilon > 0
          /\ ~explore => epsilon < Nano
          /\ LET state == get_state
                 table == IF explore THEN q_table ELSE with_row(q_table, state)
             IN  /\ q_table' = table
                 /\ \E a \in get_action(state, table, explore) :
                       ret' = [action |-> a, explore |-> explore]
    /\ op' = "get_action"
    /\ UNCHANGED <<restVars, surfaceVars, snakeVars, appleVars, loopVars, agentVars,
                   epsilon, episode_count, old_epsilon>>

PolGetReward ==
    /\ op = "init"
    /\ \E action \in 0..(n_actions - 1), game_over \in BOOLEAN, ate_apple \in BOOLEAN :
          ret' = [reward |-> get_reward(get_state, action, get_state, game_over, ate_apple),
                  action |-> action, game_over |-> game_over, ate_apple |-> ate_apple]
    /\ op' = "get_reward"
    /\ UNCHANGED <<restVars, surfaceVars, snakeVars, appleVars, loopVars, agentVars, learnVars>>

InitPolicy ==
    /\ RestIdle
    /\ BoardDrawn
    /\ q_table \in {<< >>} \cup {[s \in {get_state} |-> r] : r \in QRows}
    /\ epsilon \in {0, epsilon_min, epsilon_default}
    /\ episode_count = 0 /\ old_epsilon = None
    /\ op = "init" /\ ret = NoRet

NextPolicy ==
    \/ PolGetAction
    \/ PolGetReward

SpecPolicy == InitPolicy /\ [][NextPolicy]_vars

(* -------- save_q_table, load_q_table (learning.py 542-566, 182-220) ---- *)
\* A file is [exists, readable, table]: readable says that open and
\* pickle.load succeed on it and give table.  The errors the body of a try
\* statement can end with are strings, None when it completes.
\* "except Exception as e": what leaves the try statement.
except_OSError(e) == IF e \in {"PermissionError", "OSError"} THEN None ELSE e

except_Exception(e) == None

SaveErrors == {None, "PermissionError", "OSError", "PicklingError"}

\* The file after "with open(file, 'wb') as f: pickle.dump(table, f)" ended
\* with e: open refused (PermissionError) leaves the file alone, an error of
\* the dump leaves the file that open has truncated.
file_after_save(file, table, e) ==
    IF e = None THEN [exists |-> TRUE, readable |-> TRUE, table |-> table]
    ELSE IF e = "PermissionError" THEN file
    ELSE [exists |-> TRUE, readable |-> FALSE, table |-> << >>]

\* The errors "open(file, 'rb')" and pickle.load can end with.
LoadErrors(file) ==
    IF ~file.exists THEN {None}
    ELSE IF file.readable THEN {None, "OSError"}
    ELSE {"PermissionError", "UnpicklingError", "EOFError"}

\* self.q_table after load_q_table, whose try body ended with e.
load_q_table(table, file, e) ==
    IF e # None THEN << >>
    ELSE IF file.exists THEN file.table
    ELSE table

SaveQTable ==
    /\ pc = "idle"
    /\ \E e \in SaveErrors :
          /\ q_table_file' = file_after_save(q_table_file, q_table, e)
          /\ ret' = [error |-> e, raised |-> except_Exception(e), before |-> q_table]
    /\ op' = "save_q_table"
    /\ UNCHANGED <<surfaceVars, snakeVars, appleVars, loopVars, agentVars, learnVars,
                   episodeVars, controlVars>>

\* QLearningAgent.__init__ of a new process: the defaults, the empty table,
\* then load_q_table.
QLearningAgentInit ==
    /\ pc = "idle"
    /\ \E e \in LoadErrors(q_table_file) :
          /\ q_table' = load_q_table(<< >>, q_table_file, e)
          /\ ret' = [error |-> e, raised |-> except_Exception(e), before |-> q_table]
    /\ epsilon' = epsilon_default /\ episode_count' = 0
    /\ op' = "load_q_table"
    /\ UNCHANGED <<surfaceVars, snakeVars, appleVars, loopVars, agentVars, old_epsilon,
                   fileVars, episodeVars, controlVars>>

\* The tables in memory and the files on disk the operations start from.
Files ==
    {NoFile, [exists |-> TRUE, readable |-> FALSE, table |-> << >>]}
    \cup {[exists |-> TRUE, readable |-> TRUE, table |-> t] :
            t \in {<< >>} \cup {[s \in {q} |-> zero_row] : q \in QStates}}

InitPersist ==
    /\ GameIdle
    /\ q_table \in QTables
    /\ epsilon = epsilon_default /\ old_epsilon = None /\ episode_count = 0
    /\ q_table_file \in Files
    /\ last_state = NoState /\ last_action = NoAction
    /\ last_score = 0 /\ episode_reward = 0 /\ move_history = << >>
    /\ agent_playing = FALSE /\ events = << >>
    /\ op = "init" /\ ret = [error |-> None, raised |-> None, before |-> << >>]

NextPersist ==
    \/ SaveQTable
    \/ QLearningAgentInit

SpecPersist == InitPersist /\ [][NextPersist]_vars

(* -------- _count_available_space over bounded boards (ai.py 477-518) --- *)
\* The depth bounds the count is taken with: small ones, which cut the fill
\* short on the surface, and the source's default.
DepthCaps == (1..MaxCap) \cup {space_max_depth}

\* One call of _count_available_space from a start cell.
SpaceCount ==
    /\ op = "init"
    /\ \E c \in apple_cells(<< >>, << >>), depth_cap \in DepthCaps :
          ret' = [start |-> c, max_depth |-> depth_cap, before |-> NoRate,
                  count |-> _count_available_space(c[1], c[2], depth_cap)]
    /\ op' = "count"
    /\ UNCHANGED <<restVars, surfaceVars, snakeVars, appleVars, loopVars, agentVars, learnVars>>

\* One more occupied cell at the end of the body, and the call again with
\* the same start cell and bound.
SpaceCountWithOneMore ==
    /\ op = "count"
    /\ \E c \in apple_cells(<< >>, << >>) :
          /\ x' = Append(x, c[1]) /\ y' = Append(y, c[2])
          /\ length' = length + 1
          /\ ret' = [ret EXCEPT !.before = ret.count,
                                !.count = count_space(Append(x, c[1]), Append(y, c[2]),
                                                      length + 1, ret.start[1],
                                                      ret.start[2], ret.max_depth)]
    /\ op' = "count_again"
    /\ UNCHANGED <<restVars, surfaceVars, direction, appleVars, loopVars, agentVars, learnVars>>

InitSpace ==
    /\ RestIdle
    /\ BoardDrawn
    /\ apple_x = 0 /\ apple_y = 0
    /\ q_table = << >> /\ epsilon = Nano /\ episode_count = 0 /\ old_epsilon = None
    /\ op = "init" /\ ret = NoRet

NextSpace ==
    \/ SpaceCount
    \/ SpaceCountWithOneMore

SpecSpace == InitSpace /\ [][NextSpace]_vars

(* ======================================================================= *)
(*          allagents.py: SimpleAgent, ModelBasedAgent, GoalBasedAgent      *)
(* ======================================================================= *)
\* A snake that walks as it turns.
snake_moved_and_walked(d) ==
    [x |-> walk_x(x, length, turn(direction, d)),
     y |-> walk_y(y, length, turn(direction, d)),
     length |-> length, direction |-> turn(direction, d)]

\* The snake after "self.game.snake.move_left()" (right, up, down), the one
\* thing an agent does to the game.
snake_moved(d) ==
    [x |-> x, y |-> y, length |-> length, direction |-> turn(direction, d)]

agent_moves(d) ==
    /\ x' = snake_moved(d).x /\ y' = snake_moved(d).y
    /\ length' = snake_moved(d).length
    /\ direction' = snake_moved(d).direction

(* ------------------ SimpleAgent (allagents.py 296-346) ----------------- *)
\* The score with a keep-heading bonus of 3 instead of 1.
simple_score_heading_first(d) ==
    LET next == _get_potential_head(d)
        distance == _calculate_manhattan_distance(next[1], next[2], apple_x, apple_y)
        escape_routes == count_escape_routes(next[1], next[2])
    IN  0 - distance + escape_routes * 2 + (IF d = direction THEN 3 ELSE 0)

simple_score(d) ==
    LET next == _get_potential_head(d)
        distance == _calculate_manhattan_distance(next[1], next[2], apple_x, apple_y)
        escape_routes == count_escape_routes(next[1], next[2])
    IN  0 - distance + escape_routes * 2 + (IF d = direction THEN 1 ELSE 0)

RECURSIVE simple_best_of(_, _, _, _)
simple_best_of(ds, i, best, best_score) ==
    IF i > Len(ds) THEN best
    ELSE IF simple_score(ds[i]) > best_score
            THEN simple_best_of(ds, i + 1, ds[i], simple_score(ds[i]))
         ELSE simple_best_of(ds, i + 1, best, best_score)

simple_make_move ==
    LET safe_directions ==
            SelectSeq(non_reversing(direction),
                      LAMBDA d : ~_is_potential_move_colliding(_get_potential_head(d)[1],
                                                               _get_potential_head(d)[2]))
    IN  /\ IF safe_directions = << >>
              THEN /\ UNCHANGED <<x, y, length, direction>>
                   /\ ret' = [NoRet EXCEPT !.valid_directions = safe_directions]
              ELSE LET best_direction ==
                           simple_best_of(safe_directions, 1, safe_directions[1], NegInf)
                   IN  /\ agent_moves(best_direction)
                       /\ ret' = [NoRet EXCEPT !.valid_directions = safe_directions,
                                               !.best_direction = best_direction]
        /\ op' = "make_move"
        /\ UNCHANGED <<appleVars, previous_direction, move_history>>

(* ---------------- ModelBasedAgent (allagents.py 348-404) --------------- *)
history_maxlen == 10

\* update_model: "for i in range(1, self.game.snake.length - 1)".
danger_zones == {<<x[i], y[i]>> : i \in 2..(length - 1)}

evaluate_direction(d) ==
    LET next == _get_potential_head(d)
        apple_distance == _calculate_manhattan_distance(next[1], next[2], apple_x, apple_y)
    IN  IF _is_potential_move_colliding(next[1], next[2]) THEN 0 - 1000
        ELSE 0 - apple_distance * 5
             - (IF next \in danger_zones THEN 20 ELSE 0)
             - (IF \E k \in 1..Len(move_history) : move_history[k] = next THEN 10 ELSE 0)
             + (IF d = direction THEN 10 ELSE 0)
             + (IF next[1] = apple_x \/ next[2] = apple_y THEN 15 ELSE 0)

RECURSIVE model_best_of(_, _, _)
model_best_of(ds, i, best) ==
    IF i > Len(ds) THEN best
    ELSE model_best_of(ds, i + 1,
                       IF evaluate_direction(ds[i]) > evaluate_direction(best)
                          THEN ds[i] ELSE best)

\* deque(maxlen=10).append
history_append(h, c) ==
    IF Len(h) >= history_maxlen THEN Append(Tail(h), c) ELSE Append(h, c)

model_make_move ==
    LET ds == non_reversing(direction)
        best_direction == model_best_of(ds, 2, ds[1])
    IN  /\ move_history' = history_append(move_history, <<x[1], y[1]>>)
        /\ agent_moves(best_direction)
        /\ ret' = [NoRet EXCEPT !.valid_directions = ds, !.best_direction = best_direction]
        /\ op' = "make_move"
        /\ UNCHANGED <<appleVars, previous_direction>>

(* ----------------- GoalBasedAgent (allagents.py 406-521) --------------- *)
goal_max_depth == 30
space_count_cap == 100

\* is_valid_position(grid_x, grid_y): "for i in range(self.game.snake.length - 1)".
is_valid_position(g) ==
    LET px == g[1] * SIZE
        py == g[2] * SIZE
    IN  /\ ~(px < 0 \/ px >= screen_width \/ py < 0 \/ py >= screen_height)
        /\ \A i \in 1..(length - 1) : ~(px = x[i] /\ py = y[i])

goal_directions == << <<0, 1>>, <<0, 0 - 1>>, <<1, 0>>, <<0 - 1, 0>> >>
direction_names == <<"down", "up", "right", "left">>

\* The "for i, (dx, dy) in enumerate(directions)" loop of one dequeued entry;
\* an entry is a grid position and the first direction of its path (None for
\* the path []).
RECURSIVE goal_explore(_, _, _, _, _)
goal_explore(cur, i, queue, visited, goal) ==
    IF i > Len(goal_directions) THEN [found |-> None, queue |-> queue, visited |-> visited]
    ELSE LET next == <<cur.pos[1] + goal_directions[i][1], cur.pos[2] + goal_directions[i][2]>>
             first == IF cur.first = None THEN direction_names[i] ELSE cur.first
         IN  IF next = goal
                THEN [found |-> first, queue |-> queue, visited |-> visited]
             ELSE IF next \notin visited /\ is_valid_position(next)
                THEN goal_explore(cur, i + 1, Append(queue, [pos |-> next, first |-> first]),
                                  visited \cup {next}, goal)
             ELSE goal_explore(cur, i + 1, queue, visited, goal)

\* "while queue and depth < max_depth": depth counts the entries dequeued.
RECURSIVE find_path_loop(_, _, _, _)
find_path_loop(queue, visited, depth, goal) ==
    IF queue = << >> \/ depth >= goal_max_depth THEN None
    ELSE LET r == goal_explore(Head(queue), 1, Tail(queue), visited, goal)
         IN  IF r.found # None THEN r.found
             ELSE find_path_loop(r.queue, r.visited, depth + 1, goal)

\* find_path_to_apple: path[0], None for the empty path.
find_path_to_apple ==
    LET start == <<x[1] \div SIZE, y[1] \div SIZE>>
        goal == <<apple_x \div SIZE, apple_y \div SIZE>>
    IN  IF start = goal THEN None
        ELSE find_path_loop(<<[pos |-> start, first |-> None]>>, {start}, 0, goal)

\* count_available_space(x, y): the fill with a stack.
goal_space_moves == << <<SIZE, 0>>, <<0 - SIZE, 0>>, <<0, SIZE>>, <<0, 0 - SIZE>> >>

RECURSIVE goal_space_loop(_, _, _)
goal_space_loop(stack, visited, cnt) ==
    IF stack = << >> \/ cnt >= space_count_cap THEN cnt
    ELSE LET cur == stack[Len(stack)]
             rest == SubSeq(stack, 1, Len(stack) - 1)
         IN  IF cur \in visited THEN goal_space_loop(rest, visited, cnt)
             ELSE IF cur[1] < 0 \/ cur[1] >= screen_width
                     \/ cur[2] < 0 \/ cur[2] >= screen_height
                THEN goal_space_loop(rest, visited, cnt)
             ELSE IF \E i \in 1..(length - 1) : cur[1] = x[i] /\ cur[2] = y[i]
                THEN goal_space_loop(rest, visited, cnt)
             ELSE LET seen == visited \cup {cur}
                      pushed == SelectSeq(
                          [k \in 1..Len(goal_space_moves) |->
                              <<cur[1] + goal_space_moves[k][1],
                                cur[2] + goal_space_moves[k][2]>>],
                          LAMBDA c : c \notin seen)
                  IN  goal_space_loop(rest \o pushed, seen, cnt + 1)

count_available_space(cx, cy) == goal_space_loop(<< <<cx, cy>> >>, {}, 0)

goal_score(d) ==
    LET next == _get_potential_head(d)
        distance == _calculate_manhattan_distance(next[1], next[2], apple_x, apple_y)
        space == count_available_space(next[1], next[2])
    IN  0 - distance * 5 + space + (IF d = direction THEN 5 ELSE 0)

\* The fallback loop: directions that collide are passed over.
RECURSIVE goal_best_of(_, _, _, _)
goal_best_of(ds, i, best, best_score) ==
    IF i > Len(ds) THEN best
    ELSE IF /\ ~_is_potential_move_colliding(_get_potential_head(ds[i])[1],
                                             _get_potential_head(ds[i])[2])
            /\ goal_score(ds[i]) > best_score
            THEN goal_best_of(ds, i + 1, ds[i], goal_score(ds[i]))
         ELSE goal_best_of(ds, i + 1, best, best_score)

goal_make_move ==
    LET path == find_path_to_apple
        ds == non_reversing(direction)
        best_direction ==
            IF /\ path # None
               /\ ~_is_potential_move_colliding(_get_potential_head(path)[1],
                                                _get_potential_head(path)[2])
               THEN path
               ELSE goal_best_of(ds, 1, ds[1], NegInf)
    IN  /\ agent_moves(best_direction)
        /\ ret' = [valid_directions |-> ds, best_direction |-> best_direction,
                   raised |-> None, path |-> path]
        /\ op' = "make_move"
        /\ UNCHANGED <<appleVars, previous_direction, move_history>>

(* ------------- one call of an agent over bounded boards ---------------- *)
AgentSimple ==
    /\ op = "init"
    /\ simple_make_move
    /\ current_agent' = "simple_agent"
    /\ UNCHANGED <<surfaceVars, loopVars, learnVars, fileVars, controlVars,
                   last_state, last_action, last_score, episode_reward>>

AgentModelBased ==
    /\ op = "init"
    /\ model_make_move
    /\ current_agent' = "model_based_agent"
    /\ UNCHANGED <<surfaceVars, loopVars, learnVars, fileVars, controlVars,
                   last_state, last_action, last_score, episode_reward>>

AgentGoalBased ==
    /\ op = "init"
    /\ goal_make_move
    /\ current_agent' = "goal_based_agent"
    /\ UNCHANGED <<surfaceVars, loopVars, learnVars, fileVars, controlVars,
                   last_state, last_action, last_score, episode_reward>>

AgentUtilityBased ==
    /\ op = "init"
    /\ utility_make_move
    /\ current_agent' = "utility_based_agent"
    /\ UNCHANGED <<restVars, surfaceVars, loopVars, learnVars>>

\* smart_agent_bfs of ai.py on the same boards.
AgentSmartBfs ==
    /\ op = "init"
    /\ smart_agent_bfs
    /\ current_agent' = "smart_agent_bfs"
    /\ UNCHANGED <<restVars, surfaceVars, loopVars, previous_direction, learnVars>>

\* The cells ModelBasedAgent remembers: none yet, or the head's cell at its
\* latest move.
InitAgents ==
    /\ BoardDrawn
    /\ q_table = << >> /\ epsilon = Nano /\ episode_count = 0 /\ old_epsilon = None
    /\ q_table_file = NoFile
    /\ last_state = NoState /\ last_action = NoAction
    /\ last_score = 0 /\ episode_reward = 0
    /\ move_history \in {<< >>} \cup {<<c>> : c \in apple_cells(<< >>, << >>)}
    /\ agent_playing = FALSE /\ events = << >>
    /\ op = "init" /\ ret = NoRet

NextAgents ==
    \/ AgentSimple
    \/ AgentModelBased
    \/ AgentGoalBased
    \/ AgentUtilityBased
    \/ AgentSmartBfs

SpecAgents == InitAgents /\ [][NextAgents]_vars

(* ------- GoalBasedAgent on a surface with more cells than max_depth ---- *)
WideCols == 6
WideRows == 6
WideLen == 3

InitGoalSearch ==
    /\ RestIdle
    /\ screen_width = WideCols * SIZE /\ screen_height = WideRows * SIZE
    /\ \E n \in 1..WideLen : \E w \in snakes_of(n) :
          /\ x = [i \in 1..n |-> w[i][1]]
          /\ y = [i \in 1..n |-> w[i][2]]
          /\ length = n
          /\ IF n >= 2 THEN direction = heading_of(w[1], w[2])
             ELSE direction \in Directions
    /\ \E c \in apple_cells(x, y) : apple_x = c[1] /\ apple_y = c[2]
    /\ count = 0 /\ pause = FALSE /\ pc = "idle"
    /\ current_agent = None /\ previous_direction = None
    /\ q_table = << >> /\ epsilon = Nano /\ episode_count = 0 /\ old_epsilon = None
    /\ op = "init" /\ ret = NoRet

\* One call of find_path_to_apple; ret.path is path[0], None for [].
GoalFindPath ==
    /\ op = "init"
    /\ ret' = [valid_directions |-> << >>, best_direction |-> None, raised |-> None,
                path |-> find_path_to_apple]
    /\ op' = "find_path_to_apple"
    /\ UNCHANGED <<restVars, surfaceVars, snakeVars, appleVars, loopVars, agentVars,
                   learnVars>>

NextGoalSearch == GoalFindPath

SpecGoalSearch == InitGoalSearch /\ [][NextGoalSearch]_vars

(* ======================================================================= *)
(*                   learning.py: Game.play and Game.run                   *)
(* ======================================================================= *)
\* Game.self_collision(head_x, head_y) (655-679): "for i in range(1,
\* self.snake.length - 1)"; the test of the last segment ends in "pass".
self_collision_lrn(xs, ys, len) ==
    \E i \in 2..(len - 1) : is_collision(xs[1], ys[1], xs[i], ys[i])

\* Game.play (713-750) outside training: walk, the apple, the collisions.
play_lrn ==
    LET wx == walk_x(x, length, direction)
        wy == walk_y(y, length, direction)
        eats == is_collision(wx[1], wy[1], apple_x, apple_y)
        nx == IF eats THEN Append(wx, -1) ELSE wx
        ny == IF eats THEN Append(wy, -1) ELSE wy
        nlen == IF eats THEN length + 1 ELSE length
    IN  /\ ~(eats /\ length >= RunMaxLen)
        /\ x' = nx /\ y' = ny /\ length' = nlen
        /\ IF eats
              THEN /\ apple_x' = apple_move_x(count)
                   /\ apple_y' = apple_move_y(count)
                   /\ count' = (count + 1) % Len(x_list)
              ELSE UNCHANGED <<apple_x, apple_y, count>>
        /\ ret' = [NoRet EXCEPT !.raised =
                      IF self_collision_lrn(nx, ny, nlen)
                         \/ check_wall_collision(nx[1], ny[1])
                         THEN "Collision Occurred" ELSE None]
        /\ UNCHANGED direction

(* ---------------- the event loop of Game.run (904-940) ----------------- *)
\* The game as the event loop changes it: the two flags, the snake, the apple.
game_now ==
    [pause |-> pause, agent_playing |-> agent_playing,
     x |-> x, y |-> y, length |-> length, direction |-> direction,
     apple_x |-> apple_x, apple_y |-> apple_y, count |-> count]

\* Game.reset (632-638): a new Snake and a new Apple.
reset_lrn(g) ==
    [g EXCEPT !.x = <<SIZE>>, !.y = <<SIZE>>, !.length = 1, !.direction = "down",
              !.apple_x = apple_first_x, !.apple_y = apple_first_y, !.count = 0]

\* K_RETURN: pause = False, agent_playing = False, self.reset().
on_return(g) == [reset_lrn(g) EXCEPT !.pause = FALSE, !.agent_playing = FALSE]

\* One KEYDOWN event: K_RETURN, K_a, the arrow keys.
on_keydown(g, k) ==
    LET g1 == IF k = "return" THEN on_return(g) ELSE g
        g2 == IF k = "a" /\ ~g1.pause
                 THEN [reset_lrn(g1) EXCEPT !.agent_playing = TRUE] ELSE g1
    IN  IF ~g2.pause /\ ~g2.agent_playing /\ k \in Directions
           THEN [g2 EXCEPT !.direction = turn(g2.direction, k)]
        ELSE g2

\* "for event in pygame.event.get()".
RECURSIVE on_events(_, _, _)
on_events(g, evs, i) ==
    IF i > Len(evs) THEN g ELSE on_events(on_keydown(g, evs[i]), evs, i + 1)

Keys == {"return", "a"} \cup Directions

\* The user presses a key; the event waits in pygame's queue.
LrnKeyDown(k) ==
    /\ Len(events) < MaxEvents
    /\ events' = Append(events, k)
    /\ op' = "keydown"
    /\ UNCHANGED <<surfaceVars, snakeVars, appleVars, loopVars, agentVars, learnVars,
                   fileVars, episodeVars, agent_playing, ret>>

\* The for loop over the events that have arrived.
LrnEvents ==
    /\ pc = "events"
    /\ LET g == on_events(game_now, events, 1)
       IN  /\ pause' = g.pause /\ agent_playing' = g.agent_playing
           /\ x' = g.x /\ y' = g.y /\ length' = g.length /\ direction' = g.direction
           /\ apple_x' = g.apple_x /\ apple_y' = g.apple_y /\ count' = g.count
           /\ pc' = IF g.agent_playing /\ ~g.pause THEN "play_game" ELSE "play"
           /\ old_epsilon' = IF g.agent_playing /\ ~g.pause THEN epsilon ELSE old_epsilon
           /\ epsilon' = IF g.agent_playing /\ ~g.pause THEN 0 ELSE epsilon
    /\ events' = << >>
    /\ op' = "events" /\ ret' = NoRet
    /\ UNCHANGED <<surfaceVars, agentVars, q_table, episode_count, fileVars, episodeVars>>

\* One turn of play_game's "while True" (516-540): get_action with epsilon 0,
\* execute_action, game.play(); a raise restores epsilon and goes on to
\* run's handler, which clears agent_playing and sets pause.  The loop reads
\* no event.
LrnPlayGameTick ==
    /\ pc = "play_game"
    /\ LET state == get_state
           table == with_row(q_table, state)
       IN  /\ q_table' = table
           /\ \E a \in get_action(state, table, FALSE) :
                 LET d == turn(direction, actions[a + 1])
                     wx == walk_x(x, length, d)
                     wy == walk_y(y, length, d)
                     eats == is_collision(wx[1], wy[1], apple_x, apple_y)
                     nx == IF eats THEN Append(wx, -1) ELSE wx
                     ny == IF eats THEN Append(wy, -1) ELSE wy
                     nlen == IF eats THEN length + 1 ELSE length
                     raised == self_collision_lrn(nx, ny, nlen)
                               \/ check_wall_collision(nx[1], ny[1])
                 IN  /\ ~(eats /\ length >= RunMaxLen)
                     /\ direction' = d
                     /\ x' = nx /\ y' = ny /\ length' = nlen
                     /\ IF eats
                           THEN /\ apple_x' = apple_move_x(count)
                                /\ apple_y' = apple_move_y(count)
                                /\ count' = (count + 1) % Len(x_list)
                           ELSE UNCHANGED <<apple_x, apple_y, count>>
                     /\ ret' = [NoRet EXCEPT !.raised =
                                   IF raised THEN "Collision Occurred" ELSE None]
                     /\ epsilon' = IF raised THEN restore(old_epsilon, epsilon) ELSE epsilon
                     /\ old_epsilon' = IF raised THEN None ELSE old_epsilon
                     /\ agent_playing' = IF raised THEN FALSE ELSE agent_playing
                     /\ pause' = IF raised THEN TRUE ELSE pause
                     /\ pc' = IF raised THEN "events" ELSE "play_game"
    /\ op' = "play_game_tick"
    /\ UNCHANGED <<surfaceVars, agentVars, episode_count, fileVars, episodeVars, events>>

\* The manual play of an iteration of run, skipped while paused.
LrnPlay ==
    /\ pc = "play"
    /\ IF ~pause /\ ~agent_playing
          THEN /\ play_lrn
               /\ pause' = (ret'.raised # None)
               /\ op' = "play"
          ELSE /\ UNCHANGED <<snakeVars, appleVars, pause>>
               /\ ret' = NoRet /\ op' = "paused"
    /\ pc' = "events"
    /\ UNCHANGED <<surfaceVars, agentVars, learnVars, fileVars, episodeVars, controlVars>>

InitRun ==
    /\ RestIdle
    /\ screen_width = RunCols * SIZE /\ screen_height = RunRows * SIZE
    /\ x = <<SIZE>> /\ y = <<SIZE>> /\ length = 1 /\ direction = "down"
    /\ apple_x = apple_first_x /\ apple_y = apple_first_y /\ count = 0
    /\ pause = FALSE /\ pc = "events"
    /\ current_agent = None /\ previous_direction = None
    /\ q_table = << >> /\ epsilon = epsilon_default /\ episode_count = 0
    /\ old_epsilon = None
    /\ op = "init" /\ ret = NoRet

NextRun ==
    \/ \E k \in Keys : LrnKeyDown(k)
    \/ LrnEvents
    \/ LrnPlayGameTick
    \/ LrnPlay

SpecRun == InitRun /\ [][NextRun]_vars

(* ======================================================================= *)
(*          The learning agents of allagents.py and reflexagent.py         *)
(* ======================================================================= *)
LearnMaxMoves == 2
MaxResets == 2

(* ------------------ LearningAgent (allagents.py 587-745) --------------- *)
\* Q-values in thousandths, epsilon in units of 10^-9.
learning_epsilon == Nano \div 5
learning_epsilon_decay == Milli - 10
learning_min_epsilon == Nano \div 100

pretrain_dangers ==
    {<<0, 0, 0, 0>>, <<1, 0, 0, 0>>, <<0, 1, 0, 0>>, <<0, 0, 1, 0>>, <<0, 0, 0, 1>>}

pretrain_states ==
    {<<apple_dx, apple_dy, dangers, length_cat, tail_dist>> :
        apple_dx \in (0 - 1)..1, apple_dy \in (0 - 1)..1, dangers \in pretrain_dangers,
        length_cat \in 0..3, tail_dist \in 0..3}

pretrain_value(state, action) ==
    IF state[3][action + 1] = 1 THEN (0 - 100) * Milli
    ELSE IF \/ action = 0 /\ state[1] < 0
            \/ action = 1 /\ state[1] > 0
            \/ action = 2 /\ state[2] < 0
            \/ action = 3 /\ state[2] > 0
         THEN 10 * Milli
         ELSE 0

pretrain_q_table ==
    [k \in pretrain_states \X (0..3) |-> pretrain_value(k[1], k[2])]

learning_actions == <<"left", "right", "up", "down">>

\* LearningAgent.get_state.
learning_get_state ==
    LET head_x == x[1]
        head_y == y[1]
        tail_x == x[Len(x)]
        tail_y == y[Len(y)]
        apple_dx == IF apple_x > head_x THEN 1 ELSE IF apple_x < head_x THEN 0 - 1 ELSE 0
        apple_dy == IF apple_y > head_y THEN 1 ELSE IF apple_y < head_y THEN 0 - 1 ELSE 0
        tail_distance == _calculate_manhattan_distance(head_x, head_y, tail_x, tail_y)
        tail_distance_discrete == Min(tail_distance \div SIZE, 3)
        wall_distance ==
            SetMin({head_x, screen_width - head_x, head_y, screen_height - head_y}) \div SIZE
        wall_distance_discrete == Min(wall_distance, 3)
        dangers ==
            [i \in 1..4 |->
                LET next == _get_potential_head(learning_actions[i])
                IN  IF _is_potential_move_colliding(next[1], next[2]) THEN 1 ELSE 0]
        length_category == Min(length \div 5, 3)
    IN  <<apple_dx, apple_dy, dangers, length_category, tail_distance_discrete,
          wall_distance_discrete>>

\* "self.q_table.get((state, action), 0.0)"
get_q_value(table, state, action) ==
    IF <<state, action>> \in DOMAIN table THEN table[<<state, action>>] ELSE 0

\* "actions.remove(<the index of the reverse of snake.direction>)"
actions_not_reversing ==
    SelectSeq(<<0, 1, 2, 3>>, LAMBDA a : ~is_reverse(direction, learning_actions[a + 1]))

RECURSIVE best_action_of(_, _, _, _, _)
best_action_of(table, state, as, i, best) ==
    IF i > Len(as) THEN best
    ELSE best_action_of(table, state, as, i + 1,
            IF get_q_value(table, state, as[i]) > get_q_value(table, state, best)
               THEN as[i] ELSE best)

get_best_action(table, state) ==
    LET as == actions_not_reversing
    IN  IF as = << >> THEN 0 ELSE best_action_of(table, state, as, 2, as[1])

\* choose_action: the set of the actions it can return.  epsilon is at least
\* min_epsilon and random() can be 0, so both branches are possible.
choose_action(table, state) ==
    {get_best_action(table, state)}
    \cup (IF epsilon > 0
             THEN {actions_not_reversing[i] : i \in 1..Len(actions_not_reversing)}
             ELSE {})

\* The first of left, right, up, down that does not collide, or None.
safe_direction ==
    LET safe == SelectSeq(learning_actions, LAMBDA d :
                    ~_is_potential_move_colliding(_get_potential_head(d)[1],
                                                  _get_potential_head(d)[2]))
    IN  IF safe = << >> THEN None ELSE safe[1]

\* LearningAgent.get_reward, in thousandths; it also stores the score in
\* last_score.
learning_get_reward ==
    LET current_score == length - 1
        head_x == x[1]
        head_y == y[1]
        distance == _calculate_manhattan_distance(head_x, head_y, apple_x, apple_y)
        min_wall_distance ==
            SetMin({head_x, screen_width - head_x, head_y, screen_height - head_y}) \div SIZE
        tail_distance ==
            _calculate_manhattan_distance(head_x, head_y, x[Len(x)], y[Len(y)])
    IN  (IF current_score > last_score THEN 100 * Milli ELSE 0 - Milli)
        + Max(0, 2 * Milli - distance * (Milli \div 2))
        - (IF min_wall_distance < 2 THEN 5 * Milli ELSE 0)
        - (IF length > 5 /\ tail_distance < 3 THEN 5 * Milli ELSE 0)

\* LearningAgent.make_move.  With a last_state, get_reward stores the score
\* in last_score and update_q_table raises NameError at its last line ("state"
\* is not defined there) before it stores anything; Game.run does not catch it.
learning_make_move ==
    LET current_state == learning_get_state
    IN  \E action \in choose_action(q_table, current_state) :
          IF last_state # NoState
             THEN /\ last_score' = length - 1
                  /\ ret' = [valid_directions |-> << >>, best_direction |-> None,
                             raised |-> "NameError", reward |-> learning_get_reward]
                  /\ pc' = "crashed"
                  /\ UNCHANGED <<snakeVars, q_table, epsilon, last_state, last_action>>
             ELSE LET chosen == learning_actions[action + 1]
                      next == _get_potential_head(chosen)
                      moved == IF _is_potential_move_colliding(next[1], next[2])
                                  THEN safe_direction ELSE chosen
                  IN  /\ direction' = IF moved = None THEN direction
                                      ELSE turn(direction, moved)
                      /\ epsilon' = Max(learning_min_epsilon,
                                        times_rate(epsilon, learning_epsilon_decay))
                      /\ last_state' = current_state
                      /\ last_action' = action
                      /\ ret' = [NoRet EXCEPT !.best_direction = moved]
                      /\ pc' = "play"
                      /\ UNCHANGED <<x, y, length, q_table, last_score>>

\* The epsilon after n moves.
RECURSIVE epsilon_after(_)
epsilon_after(n) ==
    IF n = 0 THEN learning_epsilon
    ELSE Max(learning_min_epsilon, times_rate(epsilon_after(n - 1), learning_epsilon_decay))

AllKey5 ==
    /\ pc = "events"
    /\ current_agent' = "learning_agent"
    /\ op' = "select" /\ ret' = NoRet
    /\ UNCHANGED <<restVars, surfaceVars, snakeVars, appleVars, loopVars,
                   previous_direction, learnVars>>

AllLearningMakeMove ==
    /\ pc = "events" /\ ~pause /\ current_agent = "learning_agent"
    /\ epsilon > epsilon_after(LearnMaxMoves)
    /\ learning_make_move
    /\ op' = "make_move"
    /\ UNCHANGED <<surfaceVars, appleVars, pause, agentVars, episode_count, old_epsilon,
                   fileVars, episode_reward, move_history, controlVars>>

InitLearning ==
    /\ q_table_file = NoFile /\ move_history = << >>
    /\ agent_playing = FALSE /\ events = << >>
    /\ screen_width = AllCols * SIZE /\ screen_height = AllRows * SIZE
    /\ x = <<SIZE>> /\ y = <<SIZE>> /\ length = 1 /\ direction = "down"
    /\ \E c \in apple_cells(<<SIZE>>, <<SIZE>>) : apple_x = c[1] /\ apple_y = c[2]
    /\ count = 0
    /\ pause = FALSE /\ pc = "events"
    /\ current_agent = None /\ previous_direction = None
    /\ q_table = pretrain_q_table /\ epsilon = learning_epsilon
    /\ last_state = NoState /\ last_action = NoAction /\ last_score = 0
    /\ episode_reward = 0 /\ episode_count = 0 /\ old_epsilon = None
    /\ op = "init" /\ ret = NoRet

(* -------- the learning agent of reflexagent.py (867-875, 1022-1038) ---- *)
\* episode_count is episodes_played, and NoEpisodes while learning_agent()
\* has not yet created the agent's attributes.  An action is its index in
\* left, right, up, down; a row of the table lists the four Q-values in that
\* order.  epsilon is in units of 10^-9.
NoEpisodes == 0 - 1
reflex_epsilon == Nano \div 10
reflex_epsilon_floor == Nano \div 100

\* "if hasattr(self, 'episodes_played'): ..."; the agent's fields as a record.
reset_learning_agent(agent) ==
    IF agent.episodes_played # NoEpisodes
       THEN [agent EXCEPT !.episodes_played = @ + 1,
                          !.epsilon = Max(reflex_epsilon_floor, times_rate(@, Milli - 5)),
                          !.last_state = NoState,
                          !.last_action = NoAction,
                          !.episode_reward = 0]
       ELSE agent

\* Game.reset of reflexagent.py: a new Snake, a new Apple, previous_direction
\* None, and "if hasattr(self, 'q_table'): self.reset_learning_agent()".
ReflexReset ==
    /\ pc = "reflexagent" /\ episode_count < MaxResets
    /\ x' = <<SIZE>> /\ y' = <<SIZE>> /\ length' = 1 /\ direction' = "down"
    /\ apple_x' = 3 * SIZE /\ apple_y' = 3 * SIZE /\ count' = 0
    /\ previous_direction' = None
    /\ LET before == [q_table |-> q_table, epsilon |-> epsilon,
                      episodes_played |-> episode_count, last_state |-> last_state,
                      last_action |-> last_action, episode_reward |-> episode_reward]
           agent == IF episode_count # NoEpisodes THEN reset_learning_agent(before)
                    ELSE before
       IN  /\ q_table' = agent.q_table /\ epsilon' = agent.epsilon
           /\ episode_count' = agent.episodes_played
           /\ last_state' = agent.last_state /\ last_action' = agent.last_action
           /\ episode_reward' = agent.episode_reward
    /\ op' = "reset"
    /\ ret' = reset_ret
    /\ UNCHANGED <<surfaceVars, loopVars, current_agent, old_epsilon, fileVars,
                   last_score, move_history, controlVars>>

\* The states _get_state_representation returns and rows _update_q_table
\* leaves, for the tables the reset is applied to.
ReflexStates ==
    { <<1, 0, 0, 0, 0, 0>>, <<0, 0 - 1, 1, 0, 0, 1>>, <<0 - 1, 1, 0, 0, 1, 0>> }

ReflexRows ==
    { <<0, 0, 0, 0>>,
      <<0 - 1100, 9900, 0, 0 - 100>>,
      <<200, 0, 0 - 2005, 0>> }

ReflexTables == UNION {[D -> ReflexRows] : D \in SUBSET ReflexStates}

\* 0.1, a value one reset above the floor, and the floor.
ReflexEpsilons ==
    {reflex_epsilon, reflex_epsilon_floor + reflex_epsilon_floor \div 250,
     reflex_epsilon_floor}

\* Either the attributes have not been created, or learning_agent() has run:
\* a last_state is a key of the table and comes with a last_action.
InitReflex ==
    /\ q_table_file = NoFile /\ move_history = << >>
    /\ agent_playing = FALSE /\ events = << >>
    /\ screen_width = GridCols * SIZE /\ screen_height = GridRows * SIZE
    /\ x = <<SIZE>> /\ y = <<SIZE>> /\ length = 1 /\ direction = "down"
    /\ apple_x = 3 * SIZE /\ apple_y = 3 * SIZE /\ count = 0
    /\ pause = FALSE /\ pc = "reflexagent"
    /\ current_agent = None /\ previous_direction = None
    /\ last_score = 0 /\ episode_reward = 0 /\ old_epsilon = None
    /\ \/ /\ episode_count = NoEpisodes /\ q_table = << >> /\ epsilon = reflex_epsilon
          /\ last_state = NoState /\ last_action = NoAction
       \/ /\ episode_count = 0 /\ q_table \in ReflexTables
          /\ epsilon \in ReflexEpsilons
          /\ \/ last_state = NoState /\ last_action = NoAction
             \/ last_state \in DOMAIN q_table /\ last_action \in 0..3
    /\ op = "init" /\ ret = NoRet

InitReset == InitLearning \/ InitReflex

NextReset ==
    \/ AllKey5
    \/ AllKeyReturn
    \/ AllMakeMove
    \/ AllLearningMakeMove
    \/ AllPlay
    \/ ReflexReset

SpecReset == InitReset /\ [][NextReset]_vars

(* ======================================================================= *)
(*             Snake (ai.py 50-103): its methods called in any order       *)
(* ======================================================================= *)
MaxWalks == 2
MaxGrowths == 1

\* ret holds the number of calls of increase_length, the body it was last
\* called on and the number of walks made since then (or since the start).
NoGrowth == [growths |-> 0, xs |-> << >>, ys |-> << >>, walks |-> 0]

SnakeMove(k) ==
    /\ direction' = turn(direction, k)
    /\ op' = move_op(k)
    /\ UNCHANGED <<restVars, surfaceVars, x, y, length, appleVars, loopVars, agentVars,
                   learnVars, ret>>

SnakeWalk ==
    /\ ret.walks < MaxWalks
    /\ x' = walk_x(x, length, direction)
    /\ y' = walk_y(y, length, direction)
    /\ ret' = [ret EXCEPT !.walks = @ + 1]
    /\ op' = "walk"
    /\ UNCHANGED <<restVars, surfaceVars, length, direction, appleVars, loopVars,
                   agentVars, learnVars>>

SnakeIncreaseLength ==
    /\ ret.growths < MaxGrowths
    /\ length' = length + 1
    /\ x' = Append(x, 0 - 1)
    /\ y' = Append(y, 0 - 1)
    /\ ret' = [growths |-> ret.growths + 1, xs |-> x, ys |-> y, walks |-> 0]
    /\ op' = "increase_length"
    /\ UNCHANGED <<restVars, surfaceVars, direction, appleVars, loopVars, agentVars,
                   learnVars>>

InitSnake ==
    /\ RestIdle
    /\ BoardDrawn /\ apple_x = 0 /\ apple_y = 0
    /\ q_table = << >> /\ epsilon = Nano /\ episode_count = 0 /\ old_epsilon = None
    /\ op = "init" /\ ret = NoGrowth

NextSnake ==
    \/ \E k \in Directions : SnakeMove(k)
    \/ SnakeWalk
    \/ SnakeIncreaseLength

SpecSnake == InitSnake /\ [][NextSnake]_vars

(* ======================================================================= *)
(*          learning.py: QLearningAgent.train_episode (442-504)            *)
(* ======================================================================= *)
TrainCols == 3
TrainRows == 3
MaxTicks == 6

\* The snake, its heading and the apple.
board_now == <<x, y, direction, apple_x, apple_y>>

\* What the loop of train_episode holds between its steps: old_state, action
\* and the two flags of the tick, the reward and new_state of the latest
\* update, the locals episode_reward (in episode_reward) and episode_length;
\* with them the head before the tick's move, the board the loop began with
\* and whether every get_action of the episode took the random branch.
NoTick ==
    [old_state |-> NoState, action |-> NoAction, game_over |-> FALSE, ate_apple |-> FALSE,
     head |-> << >>, reward |-> 0, new_state |-> NoState,
     episode_length |-> 0, start |-> << >>, explored |-> TRUE]

\* The loop up to the reward: get_action, execute_action, game.play() in
\* training mode and, after an apple, apple.move_random().  A raise of play
\* skips the test of the length, so ate_apple stays False.
TrainAct ==
    /\ pc = "train_act" /\ ret.episode_length < MaxTicks
    /\ \E explore \in BOOLEAN :
          /\ explore => epsilon > 0
          /\ ~explore => epsilon < Nano
          /\ LET state == get_state
                 table == IF explore THEN q_table ELSE with_row(q_table, state)
             IN  /\ q_table' = table
                 /\ \E a \in get_action(state, table, explore) :
                       LET d == turn(direction, actions[a + 1])
                           wx == walk_x(x, length, d)
                           wy == walk_y(y, length, d)
                           eats == is_collision(wx[1], wy[1], apple_x, apple_y)
                           nx == IF eats THEN Append(wx, -1) ELSE wx
                           ny == IF eats THEN Append(wy, -1) ELSE wy
                           nlen == IF eats THEN length + 1 ELSE length
                           raised == self_collision_lrn(nx, ny, nlen)
                                     \/ check_wall_collision(nx[1], ny[1])
                       IN  /\ direction' = d
                           /\ x' = nx /\ y' = ny /\ length' = nlen
                           /\ IF eats /\ ~raised
                                 THEN \E c \in apple_cells_any(<< >>, << >>) :
                                         apple_x' = c[1] /\ apple_y' = c[2]
                                 ELSE UNCHANGED <<apple_x, apple_y>>
                           /\ ret' = [ret EXCEPT !.old_state = state, !.action = a,
                                                 !.game_over = raised,
                                                 !.ate_apple = eats /\ ~raised,
                                                 !.head = <<x[1], y[1]>>,
                                                 !.explored = ret.explored /\ explore]
    /\ pc' = "train_learn"
    /\ op' = "play"
    /\ UNCHANGED <<surfaceVars, count, pause, agentVars, epsilon, episode_count,
                   old_epsilon, restVars>>

\* The rest of the loop: new_state, get_reward, update_q_table and the
\* counters; after a game over the statistics and the decay of epsilon that
\* follow the loop.
TrainLearn ==
    /\ pc = "train_learn"
    /\ LET new_state == get_state
           reward == get_reward(ret.old_state, ret.action, new_state,
                                ret.game_over, ret.ate_apple)
       IN  /\ q_table' = update_q_table(q_table, ret.old_state, ret.action, reward,
                                        new_state, ret.game_over)
           /\ episode_reward' = episode_reward + reward
           /\ ret' = [ret EXCEPT !.reward = reward, !.new_state = new_state,
                                 !.episode_length = ret.episode_length + 1]
    /\ IF ret.game_over
          THEN /\ episode_count' = episode_count + 1
               /\ epsilon' = decay(epsilon)
               /\ pc' = "trained"
          ELSE /\ UNCHANGED <<episode_count, epsilon>>
               /\ pc' = "train_act"
    /\ op' = "update_q_table"
    /\ UNCHANGED <<surfaceVars, snakeVars, appleVars, pause, agentVars, old_epsilon,
                   fileVars, last_state, last_action, last_score, move_history,
                   controlVars>>

\* train_episode at the top of its loop, in training mode: the new Snake of
\* game.reset() and the apple where move_random() put it; the table of a new
\* agent; epsilon as constructed (1.0) or decayed to epsilon_min.
InitTrain ==
    /\ RestIdle
    /\ screen_width = TrainCols * SIZE /\ screen_height = TrainRows * SIZE
    /\ x = <<SIZE>> /\ y = <<SIZE>> /\ length = 1 /\ direction = "down"
    /\ \E c \in apple_cells_any(<< >>, << >>) : apple_x = c[1] /\ apple_y = c[2]
    /\ count = 0
    /\ pause = FALSE /\ pc = "train_act"
    /\ current_agent = None /\ previous_direction = None
    /\ q_table = << >> /\ epsilon \in {epsilon_default, epsilon_min}
    /\ episode_count = 0 /\ old_epsilon = None
    /\ op = "init" /\ ret = [NoTick EXCEPT !.start = board_now]

NextTrain ==
    \/ TrainAct
    \/ TrainLearn

SpecTrain == InitTrain /\ [][NextTrain]_vars

(* ======================================================================= *)
(*        simplereflex.py: Pankaj_agent and goal_based_agent (570-650)     *)
(* ======================================================================= *)
\* _get_potential_head, _is_potential_move_colliding (every segment behind
\* the head) and _calculate_distance of simplereflex.py have the text of
\* ai.py's.
\* Pankaj_agent: the first of up, down, left, right with the least distance
\* to the apple among those that do not collide, None when all collide.
RECURSIVE pankaj_best_of(_, _, _)
pankaj_best_of(i, best, min_distance) ==
    IF i > Len(actions) THEN best
    ELSE LET next == _get_potential_head(actions[i])
             distance == _calculate_distance(next[1], next[2], apple_x, apple_y)
         IN  IF ~_is_potential_move_colliding(next[1], next[2])
                /\ (best = None \/ distance < min_distance)
                THEN pankaj_best_of(i + 1, actions[i], distance)
                ELSE pankaj_best_of(i + 1, best, min_distance)

Pankaj_agent == pankaj_best_of(1, None, 0)

\* The loop over the directions without the visited set.
RECURSIVE goal_expand_revisiting(_, _, _, _)
goal_expand_revisiting(current_pos, path, i, s) ==
    IF i > Len(actions) THEN s
    ELSE LET move == direction_moves(actions[i])
             new_pos == <<current_pos[1] + move[1], current_pos[2] + move[2]>>
         IN  IF _is_potential_move_colliding(new_pos[1], new_pos[2])
                THEN goal_expand_revisiting(current_pos, path, i + 1, s)
                ELSE goal_expand_revisiting(current_pos, path, i + 1,
                        [queue |-> Append(s.queue, <<new_pos, Append(path, actions[i])>>),
                         visited |-> s.visited,
                         appended |-> Append(s.appended, new_pos)])

\* The "for direction in directions" of goal_based_agent for the entry
\* (current_pos, path): s holds queue, visited and the list of all positions
\* appended to the queue so far.
RECURSIVE goal_expand(_, _, _, _)
goal_expand(current_pos, path, i, s) ==
    IF i > Len(actions) THEN s
    ELSE LET move == direction_moves(actions[i])
             new_pos == <<current_pos[1] + move[1], current_pos[2] + move[2]>>
         IN  IF _is_potential_move_colliding(new_pos[1], new_pos[2])
                \/ new_pos \in s.visited
                THEN goal_expand(current_pos, path, i + 1, s)
                ELSE goal_expand(current_pos, path, i + 1,
                        [queue |-> Append(s.queue, <<new_pos, Append(path, actions[i])>>),
                         visited |-> s.visited \cup {new_pos},
                         appended |-> Append(s.appended, new_pos)])

\* The "while queue" loop.  The loop has no bound of its own; the search is
\* followed for at most budget entries taken from the queue, and ended is
\* FALSE when entries are still waiting then.
RECURSIVE goal_search(_, _)
goal_search(s, budget) ==
    IF s.queue = << >>
       THEN [ended |-> TRUE, found |-> FALSE, path |-> << >>, appended |-> s.appended]
    ELSE IF budget = 0
       THEN [ended |-> FALSE, found |-> FALSE, path |-> << >>, appended |-> s.appended]
    ELSE LET current_pos == s.queue[1][1]
             path == s.queue[1][2]
         IN  IF current_pos = <<apple_x, apple_y>>
                THEN [ended |-> TRUE, found |-> TRUE, path |-> path,
                      appended |-> s.appended]
                ELSE goal_search(goal_expand(current_pos, path, 1,
                                     [s EXCEPT !.queue = Tail(s.queue)]),
                                 budget - 1)

\* Twice the cells of the surface, and two more.
search_budget == 2 * (screen_width \div SIZE) * (screen_height \div SIZE) + 2

\* goal_based_agent: the search from the head; the first move of the path
\* found, no move for the empty path, Pankaj_agent when the queue ran empty.
ReflexGoalBased ==
    /\ op = "init"
    /\ LET head == <<x[1], y[1]>>
           r == goal_search([queue |-> << <<head, << >> >> >>, visited |-> {},
                             appended |-> <<head>>], search_budget)
           fallback == r.ended /\ ~r.found
           move == IF r.found /\ r.path # << >> THEN r.path[1]
                   ELSE IF fallback THEN Pankaj_agent
                   ELSE None
       IN  /\ direction' = turn(direction, move)
           /\ ret' = [valid_directions |-> << >>, best_direction |-> move,
                      raised |-> None, ended |-> r.ended, found |-> r.found,
                      appended |-> r.appended, fallback |-> fallback]
    /\ op' = "goal_based_agent"
    /\ current_agent' = "goal_based_agent"
    /\ UNCHANGED <<restVars, surfaceVars, x, y, length, appleVars, loopVars,
                   previous_direction, learnVars>>

InitReflexGoal ==
    /\ RestIdle
    /\ BoardDrawn
    /\ q_table = << >> /\ epsilon = Nano /\ episode_count = 0 /\ old_epsilon = None
    /\ op = "init" /\ ret = NoRet

NextReflexGoal == ReflexGoalBased

SpecReflexGoal == InitReflexGoal /\ [][NextReflexGoal]_vars

(* ======================================================================= *)
(*                               Claims                                    *)
(* ======================================================================= *)

\* C1 (reversal guard): a move_* request for the direction opposite to the
\* current heading leaves direction unchanged; a request for any other
\* direction sets direction to the requested one.
C1_ReversalGuard ==
    [][\A k \in Directions :
          op' = move_op(k) =>
             IF is_reverse(direction, k) THEN direction' = direction
             ELSE direction' = k]_vars

\* A reversal was requested (move_up while heading down) and ignored, with
\* a snake of at least two segments.
C1_Witness == op = "move_up" /\ direction = "down" /\ length >= 2

\* C2 (walk invariant): after the walk of a tick, every segment behind the
\* head holds the position its predecessor had before, and the head has moved
\* by exactly SIZE along the heading and by nothing on the other axis.
C2_WalkInvariant ==
    [][op' = "play" =>
          /\ \A i \in 2..length : x'[i] = x[i - 1] /\ y'[i] = y[i - 1]
          /\ x'[1] - x[1] = direction_moves(direction)[1]
          /\ y'[1] - y[1] = direction_moves(direction)[2]]_vars

\* A walk of a snake of at least three real segments lying on distinct cells.
C2_Witness ==
    /\ op = "play" /\ length >= 3
    /\ \A i \in 1..3 : x[i] >= 0
    /\ \A i, j \in 1..3 : i # j => <<x[i], y[i]>> # <<x[j], y[j]>>

\* C4 (wall collision is terminal): a play() that returns normally leaves the
\* head inside the surface; a walk that takes the head outside makes the same
\* play() raise.
C4_WallTerminal ==
    op = "play" /\ ret.raised = None =>
        /\ 0 <= x[1] /\ x[1] < screen_width
        /\ 0 <= y[1] /\ y[1] < screen_height

\* The head was walked just past the right or the bottom edge and play raised.
C4_Witness ==
    /\ op = "play" /\ ret.raised # None /\ pause
    /\ (x[1] = screen_width \/ y[1] = screen_height)

(* Shortest paths, computed from the apple outwards, for C5 and C6.  A cell is
   free when it is on the surface and no body segment other than the head lies
   on it. *)
Inf == 10 * 10 * 10

FreeCell(c) ==
    /\ 0 <= c[1] /\ c[1] < screen_width /\ 0 <= c[2] /\ c[2] < screen_height
    /\ \A i \in 2..length : <<x[i], y[i]>> # c

Neighbours(c) ==
    {<<c[1] - SIZE, c[2]>>, <<c[1] + SIZE, c[2]>>, <<c[1], c[2] - SIZE>>, <<c[1], c[2] + SIZE>>}

\* The least number of steps, at most cap, in which a path over free cells
\* leads from cell c into the set S (k steps have been taken back from the
\* apple so far); Inf when there is none.
RECURSIVE StepsTo(_, _, _, _)
StepsTo(c, S, k, cap) ==
    IF c \in S THEN k
    ELSE IF k >= cap THEN Inf
    ELSE LET T == S \cup {n \in UNION {Neighbours(s) : s \in S} : FreeCell(n)}
         IN  IF T = S THEN Inf ELSE StepsTo(c, T, k + 1, cap)

\* The number of steps of a shortest path from the head to the apple that
\* starts in direction d and then runs over free cells, Inf when there is none
\* of at most cap steps.
StepsWithin(d, cap) ==
    LET c == <<x[1] + direction_moves(d)[1], y[1] + direction_moves(d)[2]>>
        n == StepsTo(c, {<<apple_x, apple_y>>}, 0, cap - 1)
    IN  IF FreeCell(c) /\ FreeCell(<<apple_x, apple_y>>) /\ n < Inf
           THEN 1 + n ELSE Inf

StepsVia(d) == StepsWithin(d, max_depth)

SeqToSet(s) == {s[i] : i \in 1..Len(s)}

\* C5 (BFS optimality): when some path from the head to the apple starts with
\* a valid direction, stays on the surface, avoids the body segments other
\* than the head and has at most max_depth steps, _bfs_pathfind returns the
\* first step of a shortest such path.
C5_BfsOptimal ==
    (/\ op = "smart_agent_bfs"
     /\ \E d \in SeqToSet(ret.valid_directions) : StepsVia(d) <= max_depth)
    => /\ ret.best_direction \in SeqToSet(ret.valid_directions)
       /\ \A d \in SeqToSet(ret.valid_directions) : StepsVia(ret.best_direction) <= StepsVia(d)

\* C6 (BFS fallback): when no path of at most max_depth steps leads from the
\* head through a valid first direction over free cells to the apple,
\* _bfs_pathfind returns None and smart_agent_bfs leaves the heading on one of
\* valid_directions; whatever the search returns, the heading after
\* smart_agent_bfs is one of valid_directions when there is any.
C6_BfsFallback ==
    (op = "smart_agent_bfs" /\ ret.valid_directions # <<>>) =>
        /\ direction \in SeqToSet(ret.valid_directions)
        /\ (\A d \in SeqToSet(ret.valid_directions) : StepsVia(d) = Inf)
              => ret.best_direction = None

\* The apple lies on a free cell that a path reaches, but only in more than
\* max_depth steps; the search gave up and the fallback chose the heading.
C6_Witness ==
    /\ op = "smart_agent_bfs" /\ ret.valid_directions # <<>>
    /\ \A d \in SeqToSet(ret.valid_directions) : StepsVia(d) = Inf
    /\ \E d \in SeqToSet(ret.valid_directions) : StepsWithin(d, 3 * max_depth) < Inf
    /\ ret.best_direction = None
    /\ direction \in SeqToSet(ret.valid_directions)

\* C3 (self-collision is terminal): after a play() that returns normally the
\* head lies on no real body segment (a segment that is not the (-1, -1)
\* placeholder).
C3_SelfCollisionTerminal ==
    (op = "play" /\ ret.raised = None) =>
        \A i \in 2..length :
            x[i] >= 0 => <<x[i], y[i]>> # <<x[1], y[1]>>

\* C7 (the utility agent avoids an avoidable collision): when some direction
\* that does not reverse the heading leads to a cell for which
\* _is_potential_move_colliding is false, the heading after make_move leads to
\* such a cell.
C7_UtilityAvoidsCollision ==
    [][op' = "make_move" =>
          ((\E d \in Directions :
               /\ ~is_reverse(direction, d)
               /\ ~_is_potential_move_colliding(_get_potential_head(d)[1],
                                                _get_potential_head(d)[2]))
           => ~_is_potential_move_colliding(
                   x[1] + direction_moves(direction')[1],
                   y[1] + direction_moves(direction')[2]))]_vars

\* make_move had a direction to reject because a body segment lies there, and
\* left the heading on a free cell.
C7_Witness ==
    /\ op = "make_move" /\ length >= 3
    /\ ~_is_potential_move_colliding(_get_potential_head(direction)[1],
                                     _get_potential_head(direction)[2])
    /\ \E i \in 1..Len(ret.valid_directions) :
          LET c == _get_potential_head(ret.valid_directions[i])
          IN  /\ ~check_wall_collision(c[1], c[2])
              /\ \E j \in 2..length : <<x[j], y[j]>> = c

\* The value the Q-learning formula gives the updated entry: the entries are
\* read from the table q with absent rows taken as zero.
QEntry(q, s, i) == IF s \in DOMAIN q THEN q[s][i] ELSE 0

QLegal(ns) ==
    {a \in 0..3 :
        /\ ~(\/ (ns[4] = 0 /\ a = 1) \/ (ns[4] = 1 /\ a = 0)
             \/ (ns[4] = 2 /\ a = 3) \/ (ns[4] = 3 /\ a = 2))
        /\ ns[3][a + 1] = 0}

QTarget(q, r, ns, done) ==
    IF done THEN r
    ELSE IF QLegal(ns) = {} THEN r
    ELSE r + (9 * SetMax({QEntry(q, ns, a + 1) : a \in QLegal(ns)})) \div 10

\* C8 (Q-learning update): update_q_table changes only Q[state][action],
\* creates all-zero rows for state and next_state when they are absent, and
\* sets the entry to Q + learning_rate * (target - Q), with target = reward
\* when done and otherwise reward + discount_factor * the greatest
\* Q[next_state][a] over the actions a that do not reverse next_state's
\* heading and whose danger bit in next_state is 0 (0 when there is none).
C8_QUpdate ==
    [][op' = "update_q_table" =>
          LET a == ret'
              new == QEntry(q_table, a.state, a.action + 1)
                     + (QTarget(q_table, a.reward, a.next_state, a.done)
                        - QEntry(q_table, a.state, a.action + 1)) \div 10
          IN  /\ DOMAIN q_table' = DOMAIN q_table \cup {a.state, a.next_state}
              /\ \A s \in DOMAIN q_table' : \A i \in 1..4 :
                    q_table'[s][i] =
                        IF s = a.state /\ i = a.action + 1 THEN new
                        ELSE QEntry(q_table, s, i)]_vars

\* An update that is not terminal, whose next state has a row in which the
\* greatest value belongs to an action that is not legal there, and that
\* created the row of its own state.
C8_Witness ==
    /\ op = "update_q_table" /\ ~ret.done
    /\ ret.state # ret.next_state
    /\ QLegal(ret.next_state) # {}
    /\ \E b \in 0..3 : /\ b \notin QLegal(ret.next_state)
                        /\ \A a \in QLegal(ret.next_state) :
                              q_table[ret.next_state][b + 1] > q_table[ret.next_state][a + 1]
    /\ q_table[ret.state] # zero_row
    /\ \A i \in 1..4 : i # ret.action + 1 => q_table[ret.state][i] = 0

\* C9 (epsilon floor): between the calls of train_episode and play_game the
\* exploration rate is never below epsilon_min.
C9_EpsilonFloor == pc = "idle" => epsilon >= epsilon_min

\* C10 as stated: the rate in effect during an episode (of train_episode or
\* of play_game) is never 0 and never larger than the rate in effect during
\* the episode before.
C10_RateNeverZero ==
    /\ ret.rate # NoRate => ret.rate > 0
    /\ (ret.rate # NoRate /\ ret.prev_rate # NoRate) => ret.rate <= ret.prev_rate

\* C10: the rate in effect during an episode of train_episode is greater than
\* 0 and not larger than the rate in effect during the train_episode before,
\* whatever calls of play_game lie between; an episode of play_game runs with
\* the rate 0, and when it ends with the game's exception epsilon is again
\* what it was before the call.
C10_TrainingRate ==
    /\ ret.train_rate # NoRate => ret.train_rate > 0
    /\ (ret.train_rate # NoRate /\ ret.prev_train_rate # NoRate)
          => ret.train_rate <= ret.prev_train_rate
    /\ pc = "play_game" => (epsilon = 0 /\ ret.rate = 0)
    /\ op = "play_game_raise" => epsilon = ret.before

\* A train_episode ran after a play_game that followed a train_episode, with
\* a rate lower than that of the earlier train_episode.
C10_Witness ==
    /\ op = "train_episode"
    /\ ret.prev_rate = 0
    /\ ret.prev_train_rate # NoRate
    /\ ret.train_rate < ret.prev_train_rate
    /\ ret.train_rate > 0


\* C11 (terminal rewards): get_reward returns at most -100 for every
\* transition with game_over, also when ate_apple is set; at least +100 for
\* every transition with ate_apple and not game_over; and for every other
\* transition a value of magnitude at most one tenth of either terminal
\* reward.
C11_TerminalRewards ==
    op = "get_reward" =>
        /\ ret.game_over => ret.reward <= (0 - 100) * Milli
        /\ (ret.ate_apple /\ ~ret.game_over) => ret.reward >= 100 * Milli
        /\ (~ret.ate_apple /\ ~ret.game_over) =>
              /\ 10 * Abs(ret.reward) <= Abs(get_reward(get_state, 0, get_state, TRUE, FALSE))
              /\ 10 * Abs(ret.reward) <= Abs(get_reward(get_state, 0, get_state, FALSE, TRUE))

C11_Witness ==
    /\ op = "get_reward" /\ ret.game_over /\ ret.ate_apple
    /\ ret.reward = (0 - 500) * Milli


\* C18 (reversal is never offered to the policy): in every state, the action
\* get_action returns, exploring or exploiting, is not the reverse of the
\* snake's current direction.
C18_NoReverseAction ==
    op = "get_action" => ~is_reverse(direction, actions[ret.action + 1])


\* C12 (persistence failures are never fatal): load_q_table raises nothing,
\* and when the file is absent or cannot be read or unpickled the agent starts
\* with the empty q_table; save_q_table raises nothing and leaves the q_table
\* in memory as it was, whether it fails or not.
C12_PersistenceNotFatal ==
    /\ op = "load_q_table" =>
          /\ ret.raised = None
          /\ (~q_table_file.exists \/ ~q_table_file.readable \/ ret.error # None)
                => q_table = << >>
    /\ op = "save_q_table" =>
          /\ ret.raised = None
          /\ q_table = ret.before

C12_Witness ==
    /\ op = "load_q_table" /\ ret.error = "UnpicklingError"
    /\ ret.before # << >> /\ q_table = << >>


\* C14 (apple placement, allagents.py): after every relocation of the apple,
\* by Game.__init__, by Game.reset and by the eat branch of Game.play (the
\* tick that leaves the placeholder segment at the end of the snake), the
\* apple is on a grid-aligned cell within the surface that no segment of the
\* snake occupies at that moment.
C14_ApplePlacement ==
    (op \in {"init", "reset"} \/ (op = "play" /\ x[length] = 0 - 1)) =>
        /\ apple_x % SIZE = 0 /\ apple_y % SIZE = 0
        /\ 0 <= apple_x /\ apple_x < screen_width
        /\ 0 <= apple_y /\ apple_y < screen_height
        /\ \A i \in 1..length : ~(x[i] = apple_x /\ y[i] = apple_y)

C14_Witness ==
    /\ op = "play" /\ x[length] = 0 - 1 /\ length = AllMaxLen - 1
    /\ ret.raised = None


\* C15 (heading never reverses between ticks): under manual control
\* (allagents.py, no agent selected), the direction walk() uses in a tick is
\* never the reverse of the direction walk() used in the tick before,
\* whatever arrow keys arrive between the two walks.  The direction of the
\* walk before is read off the snake: the head is one cell further that way
\* than the second segment.
C15_HeadingNeverReverses ==
    [][(/\ pc = "play" /\ current_agent = None /\ length >= 2
        /\ x[2] # 0 - 1
        /\ op' = "play")
       => ~is_reverse(heading_of(<<x[1], y[1]>>, <<x[2], y[2]>>), direction)]_vars


\* C16 (flood-fill monotonicity): for a fixed start cell and depth bound,
\* _count_available_space returns no greater a count after one more occupied
\* body cell has been added to the snake than before.
C16_FloodFillMonotone ==
    op = "count_again" => ret.count <= ret.before

C16_Witness ==
    /\ op = "count_again" /\ ret.count < ret.before
    /\ ret.max_depth < space_max_depth
    /\ ret.count > 1


C19_AgentsReadOnly ==
    [][op' \in {"make_move", "smart_agent_bfs"} =>
          /\ x' = x /\ y' = y /\ length' = length
          /\ apple_x' = apple_x /\ apple_y' = apple_y /\ count' = count
          /\ screen_width' = screen_width /\ screen_height' = screen_height]_vars

\* An agent has turned the snake: its direction is no longer the one the
\* head last walked in.
C19_Witness ==
    /\ op = "make_move" /\ current_agent = "goal_based_agent"
    /\ length >= 3 /\ x[length] # 0 - 1
    /\ ret.best_direction = direction
    /\ direction # heading_of(<<x[1], y[1]>>, <<x[2], y[2]>>)

C20_EnterStopsAgent ==
    [][(/\ pc = "play_game" /\ agent_playing /\ op = "play_game_tick"
        /\ \E i \in 1..Len(events) : events[i] = "return")
       => op' # "play_game_tick"]_vars

\* C13 (episode boundary): every reset of the learning agent, LearningAgent.reset
\* inside Game.reset of allagents.py and Game.reset_learning_agent inside
\* Game.reset of reflexagent.py, leaves last_state and last_action None and
\* the per-episode accumulators 0, and leaves q_table as it was: no sequence
\* of resets removes or alters a learned Q-value.
C13_ResetKeepsTable ==
    [][op' = "reset"
       => /\ last_state' = NoState /\ last_action' = NoAction
          /\ last_score' = 0 /\ episode_reward' = 0
          /\ q_table' = q_table]_vars

\* A reset of allagents.py that found a last_state and a last_action with the
\* learning agent selected and the pretrained table in place.
C13_Witness ==
    /\ op = "reset" /\ current_agent = "learning_agent"
    /\ ret.last_state # NoState /\ ret.last_action # NoAction
    /\ last_state = NoState /\ last_action = NoAction /\ last_score = 0
    /\ q_table = pretrain_q_table /\ q_table # << >>

\* C21 (growth never fakes a collision, allagents.py): after a play() in
\* which the head reached the apple, so that the last segment is the
\* (-1, -1) placeholder appended by increase_length, "Collision Occurred" is
\* raised only if the head lies on the cell of a real body segment.
C21_GrowthNoFakeCollision ==
    (/\ op = "play" /\ length >= 2 /\ x[length] = 0 - 1
     /\ ret.raised = "Collision Occurred")
    => \E i \in 2..(length - 1) : <<x[i], y[i]>> = <<x[1], y[1]>>

\* C22 (degenerate state, ai.py): when smart_agent_bfs finds no direction that
\* is neither a reversal nor an immediate collision, it returns without
\* raising and leaves the heading, the body and the apple as they were.
C22_NoSafeMoveKeepsState ==
    [][(op' = "smart_agent_bfs" /\ ret'.valid_directions = << >>)
       => /\ ret'.raised = None
          /\ direction' = direction
          /\ x' = x /\ y' = y /\ length' = length
          /\ apple_x' = apple_x /\ apple_y' = apple_y /\ count' = count]_vars

\* smart_agent_bfs has returned from a state in which every direction other
\* than the reversal led off the surface or onto the body.
C22_Witness ==
    /\ op = "smart_agent_bfs" /\ ret.valid_directions = << >>
    /\ \A d \in Directions :
          \/ is_reverse(direction, d)
          \/ _is_potential_move_colliding(x[1] + direction_moves(d)[1],
                                          y[1] + direction_moves(d)[2])

\* C23 (growth resolution, ai.py): in every state x and y hold length >= 1
\* segments; a play() that grows the snake leaves its new last segment at
\* (-1, -1); and the walk of the next play() puts that segment where the
\* segment before it was and leaves none of the walked segments at (-1, -1).
C23_GrowthResolved ==
    [][/\ Len(x') = length' /\ Len(y') = length' /\ length' >= 1
       /\ (op' = "play" /\ length' = length + 1)
             => <<x'[length'], y'[length']>> = <<0 - 1, 0 - 1>>
       /\ (op' = "play" /\ length >= 2 /\ <<x[length], y[length]>> = <<0 - 1, 0 - 1>>)
             => /\ <<x'[length], y'[length]>> = <<x[length - 1], y[length - 1]>>
                /\ \A i \in 1..length : <<x'[i], y'[i]>> # <<0 - 1, 0 - 1>>]_vars

\* A play() has walked a snake that grew twice: both appended segments have
\* been resolved.
C23_Witness ==
    /\ op = "play" /\ length >= 3 /\ ret.raised = None
    /\ \A i \in 1..length : x[i] >= 0 /\ y[i] >= 0

\* The cells of a body are pairwise distinct.
DistinctCells(xs, ys) ==
    \A i, j \in 1..Len(xs) : i < j => <<xs[i], ys[i]>> # <<xs[j], ys[j]>>

\* The pairs of segments of the snake that lie on the same cell.
SharedPairs ==
    {p \in (1..length) \X (1..length) :
        p[1] < p[2] /\ <<x[p[1]], y[p[1]]>> = <<x[p[2]], y[p[2]]>>}

\* increase_length has been called on a body of pairwise distinct cells and
\* walk has been called twice since.
TwoWalksAfterGrowth ==
    /\ op = "walk" /\ ret.growths >= 1 /\ ret.walks = 2
    /\ DistinctCells(ret.xs, ret.ys)

\* C24 as stated: from a body with pairwise distinct cells, increase_length()
\* followed by two walk() calls leaves exactly one pair of segments on the same
\* cell, the cell the tail had before the growth.
C24_OneDuplicateAtOldTail ==
    TwoWalksAfterGrowth
    => /\ Cardinality(SharedPairs) = 1
       /\ \A p \in SharedPairs :
             <<x[p[1]], y[p[1]]>> = <<ret.xs[Len(ret.xs)], ret.ys[Len(ret.ys)]>>

\* C24 (growth edge case): from a body with pairwise distinct cells,
\* increase_length() followed by two walk() calls leaves, behind the two head
\* cells of the two walks, the old body without its tail: these segments are
\* pairwise distinct, none of them is on the cell the tail had before the
\* growth and none at (-1, -1); two segments share a cell only if one of them
\* is one of the two head cells.
C24_NoDuplicateBehindHeads ==
    TwoWalksAfterGrowth
    => /\ length = Len(ret.xs) + 1
       /\ \A i \in 3..length : <<x[i], y[i]>> = <<ret.xs[i - 2], ret.ys[i - 2]>>
       /\ \A i \in 3..length :
             /\ <<x[i], y[i]>> # <<ret.xs[Len(ret.xs)], ret.ys[Len(ret.ys)]>>
             /\ <<x[i], y[i]>> # <<0 - 1, 0 - 1>>
       /\ \A p \in SharedPairs : p[1] <= 2

\* Two walks after the growth of a body of at least three distinct cells, with
\* no two segments on one cell.
C24_Witness ==
    /\ TwoWalksAfterGrowth /\ Len(ret.xs) >= 3
    /\ SharedPairs = {}

\* The cell one step from the head in direction d is on the surface and holds
\* no segment of the body.
StepIsSafe(d) ==
    LET next == _get_potential_head(d)
    IN  /\ 0 <= next[1] /\ next[1] < screen_width
        /\ 0 <= next[2] /\ next[2] < screen_height
        /\ \A i \in 1..length : <<x[i], y[i]>> # next

AppleOffSnake == \A i \in 1..length : <<x[i], y[i]>> # <<apple_x, apple_y>>

\* C25 (GoalBasedAgent commits to safe non-reversal steps only): with the
\* apple off the snake, the first step of the path find_path_to_apple returns
\* is not the reverse of the heading, and when some direction other than the
\* reversal leads to a cell on the surface that holds no body segment, the
\* heading after GoalBasedAgent.make_move leads to such a cell.
C25_GoalAgentSafeStep ==
    [][(op' = "make_move" /\ current_agent' = "goal_based_agent" /\ AppleOffSnake)
       => /\ ret'.path # None => ~is_reverse(direction, ret'.path)
          /\ (\E d \in Directions : ~is_reverse(direction, d) /\ StepIsSafe(d))
                => StepIsSafe(direction')]_vars

\* A cell on the surface that holds no segment of the snake, the tail apart
\* (the cells GoalBasedAgent.is_valid_position accepts).
GoalFree(c) ==
    /\ 0 <= c[1] /\ c[1] < screen_width /\ 0 <= c[2] /\ c[2] < screen_height
    /\ \A i \in 1..(length - 1) : <<x[i], y[i]>> # c

\* The least number of steps, at most cap, of a path from cell c to the apple
\* whose cells before the apple are GoalFree (S: the cells from which the
\* apple is k steps away at most); Inf when there is none.
RECURSIVE GoalStepsTo(_, _, _, _)
GoalStepsTo(c, S, k, cap) ==
    IF c \in S THEN k
    ELSE IF k >= cap THEN Inf
    ELSE LET T == S \cup {n \in UNION {Neighbours(s) : s \in S} : GoalFree(n) \/ n = c}
         IN  IF T = S THEN Inf ELSE GoalStepsTo(c, T, k + 1, cap)

GoalSteps(c) == GoalStepsTo(c, {<<apple_x, apple_y>>}, 0, goal_max_depth)

\* C26 (depth cap of the goal-based search): with the apple off the snake,
\* find_path_to_apple returns a path that begins a shortest path whenever a
\* path of at most 30 steps over cells free of the body leads from the head
\* to the apple, and returns the empty list only when there is none.
C26_GoalSearchDepthCap ==
    [][(op' = "find_path_to_apple" /\ AppleOffSnake)
       => LET n == GoalSteps(<<x[1], y[1]>>)
          IN  /\ n <= goal_max_depth
                    => /\ ret'.path # None
                       /\ LET next == _get_potential_head(ret'.path)
                          IN  (next = <<apple_x, apple_y>> \/ GoalFree(next))
                              /\ 1 + GoalSteps(next) = n
              /\ ret'.path = None => n > goal_max_depth]_vars

\* C27 (tail exclusion for the first step, ai.py): a direction that is not
\* the reversal of the heading and whose next cell is on the surface and
\* holds the snake's last segment and no other segment is one of the
\* valid_directions smart_agent_bfs builds.
C27_TailCellIsValid ==
    [][op' = "smart_agent_bfs"
       => \A d \in Directions :
             LET next == <<x[1] + direction_moves(d)[1], y[1] + direction_moves(d)[2]>>
             IN  (/\ ~is_reverse(direction, d)
                  /\ 0 <= next[1] /\ next[1] < screen_width
                  /\ 0 <= next[2] /\ next[2] < screen_height
                  /\ length >= 2 /\ <<x[length], y[length]>> = next
                  /\ \A i \in 1..(length - 1) : <<x[i], y[i]>> # next)
                 => d \in SeqToSet(ret'.valid_directions)]_vars

\* What update_q_table is to store for old_state, action, reward, new_state.
updated_q_value(table, old_state, action, reward, new_state) ==
    LET old_q_value == get_q_value(table, old_state, action)
        future_q_value ==
            SetMax({get_q_value(table, new_state, a) : a \in 0..3})
    IN  old_q_value
        + times_rate(reward + times_rate(future_q_value, Milli - 50) - old_q_value,
                     Milli \div 10)

\* C28 (LearningAgent update, allagents.py): a make_move with a last_state
\* does not raise, stores under the key (last_state, last_action) the value
\* old + learning_rate * (reward + discount_factor * max_a Q(new_state, a) - old)
\* (updated once more with the reward -50 when the chosen move collides) and
\* leaves every other entry of the table as it was.
C28_UpdateCompletes ==
    [][(op' = "make_move" /\ current_agent = "learning_agent" /\ last_state # NoState)
       => LET key == <<last_state, last_action>>
              new_state == learning_get_state
              once == updated_q_value(q_table, last_state, last_action,
                                      learning_get_reward, new_state)
              first == [k \in DOMAIN q_table \cup {key} |->
                           IF k = key THEN once ELSE q_table[k]]
              twice == updated_q_value(first, last_state, last_action,
                                       (0 - 50) * Milli, new_state)
          IN  /\ ret'.raised = None /\ pc' # "crashed"
              /\ DOMAIN q_table' = DOMAIN q_table \cup {key}
              /\ q_table'[key] \in {once, twice}
              /\ \A k \in DOMAIN q_table : k # key => q_table'[k] = q_table[k]]_vars

\* C29 (LearningAgent rewards, allagents.py): get_reward, called by the
\* make_move that follows a play() in which the snake ate the apple, returns
\* at least +100; and a play() that ends the episode with a collision while
\* the learning agent is selected leaves the Q-value of the last (state,
\* action) updated with a reward of at most -100, so that the table holds an
\* entry for it that is lower than its value before.
C29_RewardBounds ==
    [][/\ (/\ op' = "make_move" /\ current_agent = "learning_agent"
           /\ last_state # NoState /\ x[length] = 0 - 1)
          => learning_get_reward >= 100 * Milli
       /\ (/\ op' = "play" /\ current_agent = "learning_agent" /\ ret'.raised # None
           /\ last_state # NoState)
          => /\ <<last_state, last_action>> \in DOMAIN q_table'
             /\ q_table'[<<last_state, last_action>>]
                   < get_q_value(q_table, last_state, last_action)]_vars


\* The arrow key whose handler ran last, None when the last operation was not
\* a move_* call.
key_of_op ==
    IF op = "move_left" THEN "left" ELSE IF op = "move_right" THEN "right"
    ELSE IF op = "move_up" THEN "up" ELSE IF op = "move_down" THEN "down"
    ELSE None

\* C30 (one direction-producer and one step per tick, ai.py): in an unpaused
\* iteration of Game.run in which a key event has assigned snake.direction,
\* smart_agent_bfs does not assign it as well, and the body is moved by
\* walk() once, in play(), and by nothing else of the iteration.
C30_OneProducerOneStep ==
    [][/\ (op' = "smart_agent_bfs" /\ key_of_op # None /\ direction = key_of_op)
          => (ret'.valid_directions = << >> /\ direction' = direction)
       /\ (op' = "play")
          => /\ SubSeq(x', 1, length) = walk_x(x, length, direction)
             /\ SubSeq(y', 1, length) = walk_y(y, length, direction)
       /\ (op' \notin {"play", "reset"}) => (x' = x /\ y' = y)]_vars

\* C31 (game over freezes the episode, allagents.py): a play() that raised
\* leaves the game paused; while it is paused no step walks or lets an agent
\* decide, and the snake's positions, length and direction stay as they are
\* under any key event, except for Enter, whose reset() leaves a snake of
\* length 1 at (40,40) heading down and ends the pause.
C31_GameOverFreezes ==
    [][/\ (op' = "play" /\ ret'.raised # None) => pause'
       /\ pause =>
            IF op' = "reset"
               THEN /\ x' = <<SIZE>> /\ y' = <<SIZE>> /\ length' = 1
                    /\ direction' = "down" /\ ~pause'
               ELSE /\ x' = x /\ y' = y /\ length' = length /\ direction' = direction
                    /\ pause' /\ op' = "select"]_vars

\* The game is over and a key event other than Enter has been handled.
C31_Witness ==
    /\ pause /\ op = "select" /\ current_agent = "utility_based_agent"
    /\ length >= 2

\* The directions other than the reversal whose next cell SimpleAgent takes
\* for safe, and the distance of a direction's next cell to the apple.
SafeNonReversal ==
    {d \in Directions :
        /\ ~is_reverse(direction, d)
        /\ ~_is_potential_move_colliding(_get_potential_head(d)[1],
                                         _get_potential_head(d)[2])}

NextCellDistance(d) ==
    _calculate_manhattan_distance(_get_potential_head(d)[1], _get_potential_head(d)[2],
                                  apple_x, apple_y)

\* C32 (SimpleAgent ordering, allagents.py): when some direction other than
\* the reversal is immediately safe, SimpleAgent.make_move leaves the snake
\* heading in a safe non-reversal direction whose next cell is at the least
\* Manhattan distance from the apple among all safe non-reversal directions.
C32_SimpleAgentClosest ==
    [][(op' = "make_move" /\ current_agent' = "simple_agent" /\ SafeNonReversal # {})
       => /\ direction' \in SafeNonReversal
          /\ \A d \in SafeNonReversal :
                NextCellDistance(direction') <= NextCellDistance(d)]_vars

\* SimpleAgent has chosen among at least two safe directions, one of them
\* with a next cell farther from the apple than the one it took.
C32_Witness ==
    /\ op = "make_move" /\ current_agent = "simple_agent"
    /\ ret.best_direction # None
    /\ Len(ret.valid_directions) >= 2
    /\ \E i \in 1..Len(ret.valid_directions) :
          /\ ret.valid_directions[i] # direction
          /\ NextCellDistance(ret.valid_directions[i]) > NextCellDistance(direction)

\* The neighbours of the cell (cx, cy) that a move may enter: on the surface
\* and not on a body segment, by the test the agents use.
FreeNeighbours(cx, cy) ==
    {n \in {<<cx - SIZE, cy>>, <<cx + SIZE, cy>>, <<cx, cy - SIZE>>, <<cx, cy + SIZE>>} :
        ~_is_potential_move_colliding(n[1], n[2])}

\* C33 (escape-route counting, allagents.py): for each candidate cell that
\* SimpleAgent.make_move or UtilityBasedAgent.make_move scores,
\* count_escape_routes(x, y) is the number of the four neighbours of (x, y)
\* that are in bounds and not occupied by the snake body.
C33_EscapeRoutesOfCell ==
    [][(op' = "make_move" /\ current_agent' \in {"simple_agent", "utility_based_agent"})
       => \A d \in SafeNonReversal :
             LET next == _get_potential_head(d)
             IN  count_escape_routes(next[1], next[2])
                    = Cardinality(FreeNeighbours(next[1], next[2]))]_vars

\* C34 (the pretrained table is used, allagents.py): with the table as
\* pretrain_q_table built it, for the state s that get_state() returns, when
\* exactly one danger bit of s is set, get_q_value(s, a) is -100 for the
\* action a of that bit and 10 for a safe action a that moves toward the
\* apple.
C34_PretrainedValuesRead ==
    (pc # "reflexagent" /\ q_table = pretrain_q_table)
    => LET s == learning_get_state
       IN  (Cardinality({i \in 1..4 : s[3][i] = 1}) = 1)
           => \A a \in 0..3 :
                 /\ s[3][a + 1] = 1
                       => get_q_value(q_table, s, a) = (0 - 100) * Milli
                 /\ (/\ s[3][a + 1] = 0
                     /\ \/ a = 0 /\ s[1] < 0
                        \/ a = 1 /\ s[1] > 0
                        \/ a = 2 /\ s[2] < 0
                        \/ a = 3 /\ s[2] > 0)
                       => get_q_value(q_table, s, a) = 10 * Milli

\* The square of the distance between two cells.
dist_sq(ax, ay, bx, by) == (ax - bx) * (ax - bx) + (ay - by) * (ay - by)

\* C35 (distance shaping, learning.py): for a tick of train_episode that
\* neither ends the game nor eats the apple, get_reward returns +10 exactly
\* when the executed move left the head strictly closer (squared Euclidean
\* distance) to the apple than it was before the move, -15 exactly when
\* strictly farther, and -5 when the distance is unchanged.
C35_ShapingFollowsTheMove ==
    [][(op' = "update_q_table" /\ pc = "train_learn"
        /\ ~ret.game_over /\ ~ret.ate_apple)
       => LET before == dist_sq(ret.head[1], ret.head[2], apple_x, apple_y)
              after == dist_sq(x[1], y[1], apple_x, apple_y)
          IN  ret'.reward = IF after < before THEN 10 * Milli
                            ELSE IF after > before THEN (0 - 15) * Milli
                            ELSE (0 - 5) * Milli]_vars

\* The tuples the claim describes, and the one it describes for the present
\* board.
DiscreteStates ==
    {<<dx, dy, dangers, heading>> :
        dx \in (0 - 1)..1, dy \in (0 - 1)..1,
        dangers \in [1..4 -> {0, 1}], heading \in 0..3}

DescribedState ==
    LET bit(cx, cy) == IF _is_potential_move_colliding_lrn(cx, cy, TRUE) THEN 1 ELSE 0
    IN  <<sign_disc(apple_x - x[1]), sign_disc(apple_y - y[1]),
          <<bit(x[1], y[1] - SIZE), bit(x[1], y[1] + SIZE),
            bit(x[1] - SIZE, y[1]), bit(x[1] + SIZE, y[1])>>,
          direction_map(direction)>>

\* C36 (discretized state space, learning.py): the state get_state returns
\* in train_episode is (sign(apple_x - head_x), sign(apple_y - head_y), the
\* danger bits up, down, left, right by _is_potential_move_colliding with
\* exclude_tail, the heading's index); over the training run the keys of
\* q_table are such tuples, at most 3*3*16*4 = 576 of them, every row holds
\* four values, and no key is removed.
C36_StateSpace ==
    [][/\ (op' = "play") => (ret'.old_state = DescribedState)
       /\ (op' = "update_q_table") => (ret'.new_state = DescribedState)
       /\ DOMAIN q_table' \subseteq DiscreteStates
       /\ Cardinality(DOMAIN q_table') <= 576
       /\ \A s \in DOMAIN q_table' : Len(q_table'[s]) = 4
       /\ DOMAIN q_table \subseteq DOMAIN q_table']_vars

\* The table has grown to four rows, one of them for a state with a danger
\* bit set.
C36_Witness ==
    /\ op = "update_q_table"
    /\ Cardinality(DOMAIN q_table) >= 4
    /\ \E s \in DOMAIN q_table : s[3] # <<0, 0, 0, 0>>
    /\ ret.new_state \in DOMAIN q_table

\* C37 (training episodes end): every train_episode terminates, under every
\* resolution of the agent's random choices and of the apple placements.  An
\* episode that is bound to end is never back, after ticks in which get_action
\* only took its random branch, at the top of its loop with the board it
\* began with (same snake, heading and apple) and epsilon still positive: the
\* random choices that led it round are open to it again, without end.
C37_EpisodeNeverComesRound ==
    ~(/\ pc = "train_act" /\ ret.episode_length > 0
      /\ ret.explored /\ epsilon > 0
      /\ board_now = ret.start)

\* The cells a chain of steps over cells that do not collide leads to from
\* the cells of S.
RECURSIVE ReachableFrom(_)
ReachableFrom(S) ==
    LET more == {c \in apple_cells_any(<< >>, << >>) :
                    /\ ~_is_potential_move_colliding(c[1], c[2])
                    /\ \E p \in S : \E d \in Directions :
                          c = <<p[1] + direction_moves(d)[1], p[2] + direction_moves(d)[2]>>}
    IN  IF more \subseteq S THEN S ELSE ReachableFrom(S \cup more)

AppleReachable == <<apple_x, apple_y>> \in ReachableFrom({<<x[1], y[1]>>})

TimesAppended(c, log) == Cardinality({i \in 1..Len(log) : log[i] = c})

====
